---------------------------- MODULE Spec2Model ----------------------------
(***************************************************************************)
(* The lambda-calculus interpreter: the term model (ast.h), the variable   *)
(* analysis and the alpha-equivalence oracle (util.cpp) and the rewriter   *)
(* (eval.cpp: evaluate, eval, beta_reduction, alpha_conversion).           *)
(*                                                                         *)
(* Terms live in a heap of nodes addressed by pointers, as in the source:  *)
(* the rewriter mutates nodes in place and the analyses return sets of     *)
(* node addresses.  A term written by the user is a value (a record tree); *)
(* the parser allocates it in the heap.                                    *)
(***************************************************************************)
EXTENDS Integers, Sequences, FiniteSets, TLC

VARIABLES
    heap,       \* the nodes allocated so far: address -> node
    vars,       \* Context::vars : name -> address of the stored definition
    flags,      \* Context::flags
    pc,         \* where the program is: "idle", "replace", "reduce", "done", ...
    expr,       \* evaluate's argument `expr` (0: none)
    ret,        \* replace_vars's local `ret`
    copy,       \* evaluate's local `copy`
    step,       \* evaluate's local `step`
    exists,     \* evaluate's local `exists` (FALSE outside the Let branch)
    a,          \* alpha_equivalent(ctx, a, b)'s argument `a` (0: not in that call)
    input,      \* the term that was submitted, as written
    todo,       \* the inputs still to be submitted (scripted runs)
    results,    \* what the calls made so far returned
    visited,    \* history: the terms the loop at hand (the one of
                \* replace_vars, then the one of evaluate) held before the
                \* present one in this call (what do_transform prints before
                \* each step under FLAG_TRACE and FLAG_FULL_TRACE)
    printing,   \* print_replacing_vars: where the printer is in the result
    loading,    \* loadFile: the file on disk and the lines still to come
    trace       \* what print_trace and do_transform wrote in the call of
                \* evaluate at hand

vars_all ==
    <<heap, vars, flags, pc, expr, ret, copy, step, exists, a, input, todo,
      results, visited, printing, loading, trace>>

---------------------------------------------------------------------------
(* ast.h: the expression tags *)
EXPR_VAR == 1
EXPR_APPLY == 2
EXPR_LAMBDA == 3
EXPR_LET == 4

(* <climits>: the default MaxDepth of _find_variables *)
INT_MAX == 2147483647

(* a node that was deleted *)
Freed == [type |-> 0]

(* no term submitted *)
NoInput == [type |-> 0]

NULL == 0

(* print_replacing_vars is not running *)
NoPrinting == [on |-> FALSE]

(* loadFile is not running, and there is no file *)
NoLoading == [on |-> FALSE, file |-> <<>>]

---------------------------------------------------------------------------
(* Bounds *)
MaxTermSize == 4    \* nodes of an expression submitted under a context
MaxDefSize == 2     \* nodes of a definition's right-hand side
MaxRunSize == 7     \* nodes of an expression of a scripted run
MaxPairSize == 5    \* nodes of each expression of a scripted pair
MaxLeaves == 4      \* variables of a combinator expression over the prelude
MaxLetSize == 4     \* nodes of the right-hand side of a scripted definition
MaxCompareSize == 2 \* nodes of a term compared with a stored definition
MaxOracleSize == 3  \* nodes of each term handed to the oracle
MaxConvSize == 4    \* nodes of the body of a binder handed to alpha_conversion
MaxSteps == 6       \* step numbers beyond this one are not told apart
MaxNodes == 16      \* a term under rewriting is followed up to this many nodes
MaxInlineSize == 7  \* a term under inlining is taken through a further pass up to this many nodes
MaxNameLen == 4     \* ... and up to names of this many characters

Names == {"x", "y"}

(* the names a user writes, in the key order of std::map<std::string, ...> *)
NameSeq == <<"k", "w", "x", "y">>

---------------------------------------------------------------------------
(* Terms as written: ast.h's Var, Apply, Lambda and Let as record trees *)
MkVar(n) == [type |-> EXPR_VAR, name |-> n]
MkApply(f, x) == [type |-> EXPR_APPLY, fn |-> f, arg |-> x]
MkLambda(n, b) == [type |-> EXPR_LAMBDA, arg |-> n, body |-> b]
MkLet(n, v) == [type |-> EXPR_LET, name |-> n, value |-> v]

RECURSIVE TermsOfSize(_, _)
TermsOfSize(names, k) ==
    IF k = 1 THEN {MkVar(n) : n \in names}
    ELSE {MkLambda(n, b) : n \in names, b \in TermsOfSize(names, k - 1)}
         \cup UNION {{MkApply(f, x) : f \in TermsOfSize(names, i),
                                       x \in TermsOfSize(names, k - 1 - i)}
                     : i \in 1 .. (k - 2)}

TermsUpTo(names, k) == UNION {TermsOfSize(names, i) : i \in 1 .. k}

---------------------------------------------------------------------------
(* The heap *)

Range(s) == {s[i] : i \in DOMAIN s}

(* new T(...): the node gets the next address *)
New(h, node) == [h |-> Append(h, node), p |-> Len(h) + 1]

(* the parser's makeAST: the tree of a parsed expression *)
RECURSIVE Build(_, _)
Build(h, t) ==
    IF t.type = EXPR_VAR THEN New(h, [type |-> EXPR_VAR, name |-> t.name])
    ELSE IF t.type = EXPR_APPLY THEN
        LET f == Build(h, t.fn)
            x == Build(f.h, t.arg)
        IN  New(x.h, [type |-> EXPR_APPLY, fn |-> f.p, arg |-> x.p])
    ELSE IF t.type = EXPR_LAMBDA THEN
        LET b == Build(h, t.body)
        IN  New(b.h, [type |-> EXPR_LAMBDA, arg |-> t.arg, body |-> b.p])
    ELSE
        LET v == Build(h, t.value)
        IN  New(v.h, [type |-> EXPR_LET, name |-> t.name, value |-> v.p])

(* Var::clone, Apply::clone, Lambda::clone, Let::clone *)
RECURSIVE clone(_, _)
clone(h, p) ==
    LET n == h[p] IN
    IF n.type = EXPR_VAR THEN New(h, [type |-> EXPR_VAR, name |-> n.name])
    ELSE IF n.type = EXPR_APPLY THEN
        LET f == clone(h, n.fn)
            x == clone(f.h, n.arg)
        IN  New(x.h, [type |-> EXPR_APPLY, fn |-> f.p, arg |-> x.p])
    ELSE IF n.type = EXPR_LAMBDA THEN
        LET b == clone(h, n.body)
        IN  New(b.h, [type |-> EXPR_LAMBDA, arg |-> n.arg, body |-> b.p])
    ELSE IF n.type = EXPR_LET THEN
        LET v == clone(h, n.value)
        IN  New(v.h, [type |-> EXPR_LET, name |-> n.name, value |-> v.p])
    ELSE New(h, Freed)

(* delete p: the destructors delete the children a node owns *)
RECURSIVE Delete(_, _)
Delete(h, p) ==
    LET n == h[p]
        h1 == [h EXCEPT ![p] = Freed]
    IN  IF n.type = EXPR_APPLY THEN Delete(Delete(h1, n.fn), n.arg)
        ELSE IF n.type = EXPR_LAMBDA THEN Delete(h1, n.body)
        ELSE IF n.type = EXPR_LET THEN Delete(h1, n.value)
        ELSE h1

(* the pointers a node holds *)
Children(n) ==
    IF n.type = EXPR_APPLY THEN <<n.fn, n.arg>>
    ELSE IF n.type = EXPR_LAMBDA THEN <<n.body>>
    ELSE IF n.type = EXPR_LET THEN <<n.value>>
    ELSE <<>>

(* the term a pointer denotes, as written *)
RECURSIVE TermOf(_, _)
TermOf(h, p) ==
    LET n == h[p] IN
    IF n.type = EXPR_VAR THEN MkVar(n.name)
    ELSE IF n.type = EXPR_APPLY THEN MkApply(TermOf(h, n.fn), TermOf(h, n.arg))
    ELSE IF n.type = EXPR_LAMBDA THEN MkLambda(n.arg, TermOf(h, n.body))
    ELSE IF n.type = EXPR_LET THEN MkLet(n.name, TermOf(h, n.value))
    ELSE Freed

(* the number of nodes of the term at p *)
RECURSIVE Size(_, _)
Size(h, p) ==
    LET n == h[p] IN
    IF n.type = EXPR_APPLY THEN 1 + Size(h, n.fn) + Size(h, n.arg)
    ELSE IF n.type = EXPR_LAMBDA THEN 1 + Size(h, n.body)
    ELSE IF n.type = EXPR_LET THEN 1 + Size(h, n.value)
    ELSE 1

---------------------------------------------------------------------------
(* Variable analysis (util.cpp) *)

EmptyMap == [n \in {} |-> NULL]

(* std::map::insert: an existing key keeps its value *)
Insert(m, k, v) == IF k \in DOMAIN m THEN m ELSE m @@ (k :> v)

(* _find_variables<Bound, MaxDepth>(seen, expr, depth).  The recursive calls
   name only <Bound>, so they run with MaxDepth = INT_MAX, and the calls on
   the two sides of an Apply pass no depth, so they run with depth = 0. *)
RECURSIVE find_variables(_, _, _, _, _, _)
find_variables(Bound, MaxDepth, h, seen, e, depth) ==
    LET n == h[e] IN
    IF n.type = EXPR_VAR THEN
        IF Bound
        THEN IF n.name \in DOMAIN seen THEN (n.name :> seen[n.name]) ELSE EmptyMap
        ELSE IF n.name \notin DOMAIN seen THEN {e} ELSE {}
    ELSE IF n.type = EXPR_APPLY THEN
        LET x == find_variables(Bound, INT_MAX, h, seen, n.fn, 0)
            y == find_variables(Bound, INT_MAX, h, seen, n.arg, 0)
        IN  IF Bound THEN x @@ y ELSE x \cup y
    ELSE IF n.type = EXPR_LAMBDA THEN
        IF depth < MaxDepth
        THEN find_variables(Bound, INT_MAX, h, Insert(seen, n.arg, e), n.body, 1 + depth)
        ELSE IF Bound THEN EmptyMap ELSE {}
    ELSE IF Bound THEN EmptyMap ELSE {}     \* abort()

(* find_free_variables as it would be if it did not look at the binders:
   every Var below e *)
RECURSIVE find_all_variables(_, _)
find_all_variables(h, e) ==
    LET n == h[e] IN
    IF n.type = EXPR_VAR THEN {e}
    ELSE IF n.type = EXPR_APPLY
    THEN find_all_variables(h, n.fn) \cup find_all_variables(h, n.arg)
    ELSE IF n.type = EXPR_LAMBDA THEN find_all_variables(h, n.body)
    ELSE {}

find_free_variables(h, e) == find_variables(FALSE, INT_MAX, h, EmptyMap, e, 0)

find_bound_variables(h, e) == find_variables(TRUE, INT_MAX, h, EmptyMap, e, 0)

fresh_name(name) == name \o "'"

---------------------------------------------------------------------------
(* Slots: the Expr** of the source.  A slot is a field of a node, or
   evaluate's local `copy`. *)
Slot(node, field) == [node |-> node, field |-> field]
CopySlot == Slot(NULL, "copy")

(* m = [h |-> the heap, copy |-> evaluate's copy] *)
Deref(m, slot) ==
    IF slot.field = "copy" THEN m.copy ELSE m.h[slot.node][slot.field]

Store(m, slot, v) ==
    IF slot.field = "copy" THEN [m EXCEPT !.copy = v]
    ELSE [m EXCEPT !.h[slot.node][slot.field] = v]

(* find_substitutions(expr, var): the slots holding a Var named var, up to
   the Lambdas that bind var again *)
RECURSIVE find_substitutions(_, _, _)
find_substitutions(m, slot, var) ==
    LET e == Deref(m, slot)
        n == m.h[e]
    IN  IF n.type = EXPR_VAR THEN
            IF n.name = var THEN <<slot>> ELSE <<>>
        ELSE IF n.type = EXPR_APPLY THEN
            find_substitutions(m, Slot(e, "fn"), var)
                \o find_substitutions(m, Slot(e, "arg"), var)
        ELSE IF n.type = EXPR_LAMBDA THEN
            IF n.arg # var THEN find_substitutions(m, Slot(e, "body"), var) ELSE <<>>
        ELSE <<>>                            \* abort()

(* substitute(expr, vars, value): every slot gets its own clone of value *)
RECURSIVE substitute(_, _, _, _)
substitute(m, e, slots, value) ==
    IF slots = <<>> THEN [m |-> m, ret |-> e]
    ELSE LET c == clone(m.h, value)
             m1 == Store([m EXCEPT !.h = c.h], Head(slots), c.p)
         IN  substitute(m1, e, Tail(slots), value)

---------------------------------------------------------------------------
(* The rewriter (eval.cpp) *)

(* alpha_conversion(e, name, fresh): renames in place, returns the node that
   stands for e afterwards (a Var is replaced, not changed) *)
RECURSIVE alpha_conversion(_, _, _, _)
alpha_conversion(h, e, name, fresh) ==
    LET n == h[e] IN
    IF n.type = EXPR_VAR THEN
        IF n.name = name THEN New(h, [type |-> EXPR_VAR, name |-> fresh])
        ELSE [h |-> h, p |-> e]
    ELSE IF n.type = EXPR_APPLY THEN
        LET f == alpha_conversion(h, n.fn, name, fresh)
            h1 == [f.h EXCEPT ![e].fn = f.p]
            x == alpha_conversion(h1, h1[e].arg, name, fresh)
        IN  [h |-> [x.h EXCEPT ![e].arg = x.p], p |-> e]
    ELSE IF n.type = EXPR_LAMBDA THEN
        IF n.arg = fresh THEN
            \* we need to rename the inner lambda to a different name
            LET fresher == fresh_name(fresh)
                h1 == [h EXCEPT ![e].arg = fresher]
                b == alpha_conversion(h1, h1[e].body, fresh, fresher)
            IN  [h |-> [b.h EXCEPT ![e].body = b.p], p |-> e]
        ELSE
            LET h1 == IF n.arg = name THEN [h EXCEPT ![e].arg = fresh] ELSE h
                b == alpha_conversion(h1, h1[e].body, name, fresh)
            IN  [h |-> [b.h EXCEPT ![e].body = b.p], p |-> e]
    ELSE [h |-> h, p |-> e]                  \* abort()

(* what evaluate and the rewriter write: the numbered lines and the lines
   "0." and "done" of print_trace, and the snapshots do_transform writes
   before and after a transformation.  out is what a call writes when every
   flag is set; Traced leaves what is written under print_flags. *)
Event(kind, n, name, text) == [kind |-> kind, step |-> n, name |-> name, text |-> text]

(* do_transform(print_flags, fn, printer, ...) around the transformation of
   the event numbered n *)
do_transform(n) == <<Event("before", n, "", NoInput), Event("after", n, "", NoInput)>>

(* the loop as it would be if it wrote step where it writes step++ *)
RECURSIVE rename_conflicts_unnumbered(_, _, _, _)
rename_conflicts_unnumbered(h, stp, bound, order) ==
    IF order = <<>> THEN [h |-> h, step |-> stp, out |-> <<>>]
    ELSE LET f == h[Head(order)].name IN
         IF f \in DOMAIN bound
         THEN LET c == alpha_conversion(h, bound[f], f, fresh_name(f))
                  r == rename_conflicts_unnumbered(c.h, stp, bound, Tail(order))
              IN  [r EXCEPT !.out = <<Event("alpha-con", stp, f, MkVar(fresh_name(f)))>>
                                      \o do_transform(stp) \o r.out]
         ELSE rename_conflicts_unnumbered(h, stp, bound, Tail(order))

(* the loop `for(auto v : free)` of beta_reduction, over the free variables
   in the order the set yields them *)
RECURSIVE rename_conflicts(_, _, _, _)
rename_conflicts(h, stp, bound, order) ==
    IF order = <<>> THEN [h |-> h, step |-> stp, out |-> <<>>]
    ELSE LET f == h[Head(order)].name IN
         IF f \in DOMAIN bound
         THEN LET c == alpha_conversion(h, bound[f], f, fresh_name(f))
                  r == rename_conflicts(c.h, stp + 1, bound, Tail(order))
              IN  [r EXCEPT !.out = <<Event("alpha-con", stp, f, MkVar(fresh_name(f)))>>
                                      \o do_transform(stp) \o r.out]
         ELSE rename_conflicts(h, stp, bound, Tail(order))

(* beta_reduction(step, print_flags, whole, app, parent); order is the
   iteration order of the set `free`.  red = NULL is the nullptr result. *)
RECURSIVE beta_reduction(_, _, _, _, _)

(* beta_reduction as it would be if it looked into the argument before the
   function *)
beta_reduction_arg_first(m, stp, app, parent, order) ==
    LET n == m.h[app]
        fn == m.h[n.fn]
    IN  IF fn.type = EXPR_LAMBDA THEN
            LET func == n.fn
                free == find_free_variables(m.h, n.arg)
                bound == find_bound_variables(m.h, func)
                r == rename_conflicts(m.h, stp, bound,
                                      SelectSeq(order, LAMBDA v : v \in free))
                m1 == [m EXCEPT !.h = r.h]
                substs == find_substitutions(m1, Slot(func, "body"), m1.h[func].arg)
                s == substitute(m1, func, substs, n.arg)
                body == s.m.h[s.ret].body
            IN  [m |-> Store(s.m, parent, body), step |-> r.step + 1, red |-> body,
                 out |-> r.out \o <<Event("beta-red", r.step, m1.h[func].arg,
                                          TermOf(m1.h, n.arg))>>
                               \o do_transform(r.step)]
        ELSE IF m.h[n.arg].type = EXPR_APPLY THEN
            LET r == beta_reduction(m, stp, n.arg, Slot(app, "arg"), order) IN
            IF r.red # NULL
            THEN [m |-> Store(r.m, Slot(app, "arg"), r.red), step |-> r.step, red |-> app,
                  out |-> r.out]
            ELSE [m |-> m, step |-> stp, red |-> NULL, out |-> <<>>]
        ELSE IF fn.type = EXPR_APPLY THEN
            LET r == beta_reduction(m, stp, n.fn, Slot(app, "fn"), order) IN
            IF r.red # NULL
            THEN [m |-> Store(r.m, Slot(app, "fn"), r.red), step |-> r.step, red |-> app,
                  out |-> r.out]
            ELSE [m |-> m, step |-> stp, red |-> NULL, out |-> <<>>]
        ELSE [m |-> m, step |-> stp, red |-> NULL, out |-> <<>>]

beta_reduction(m, stp, app, parent, order) ==
    LET n == m.h[app]
        fn == m.h[n.fn]
    IN  IF fn.type = EXPR_LAMBDA THEN
            LET func == n.fn
                free == find_free_variables(m.h, n.arg)
                bound == find_bound_variables(m.h, func)
                r == rename_conflicts(m.h, stp, bound,
                                      SelectSeq(order, LAMBDA v : v \in free))
                m1 == [m EXCEPT !.h = r.h]
                substs == find_substitutions(m1, Slot(func, "body"), m1.h[func].arg)
                s == substitute(m1, func, substs, n.arg)
                body == s.m.h[s.ret].body
            IN  [m |-> Store(s.m, parent, body), step |-> r.step + 1, red |-> body,
                 out |-> r.out \o <<Event("beta-red", r.step, m1.h[func].arg,
                                          TermOf(m1.h, n.arg))>>
                               \o do_transform(r.step)]
        ELSE IF fn.type = EXPR_APPLY THEN
            LET r == beta_reduction(m, stp, n.fn, Slot(app, "fn"), order) IN
            IF r.red # NULL
            THEN [m |-> Store(r.m, Slot(app, "fn"), r.red), step |-> r.step, red |-> app,
                  out |-> r.out]
            ELSE [m |-> m, step |-> stp, red |-> NULL, out |-> <<>>]
        ELSE IF m.h[n.arg].type = EXPR_APPLY THEN
            LET r == beta_reduction(m, stp, n.arg, Slot(app, "arg"), order) IN
            IF r.red # NULL
            THEN [m |-> Store(r.m, Slot(app, "arg"), r.red), step |-> r.step, red |-> app,
                  out |-> r.out]
            ELSE [m |-> m, step |-> stp, red |-> NULL, out |-> <<>>]
        ELSE [m |-> m, step |-> stp, red |-> NULL, out |-> <<>>]

(* eval(step, print_flags, whole, expr) *)
RECURSIVE eval(_, _, _, _)
eval(m, stp, slot, order) ==
    LET e == Deref(m, slot)
        n == m.h[e]
    IN  IF n.type = EXPR_APPLY THEN beta_reduction(m, stp, e, slot, order)
        ELSE IF n.type = EXPR_LAMBDA THEN
            LET r == eval(m, stp, Slot(e, "body"), order) IN
            IF r.red # NULL
            THEN [m |-> Store(r.m, Slot(e, "body"), r.red), step |-> r.step, red |-> e,
                  out |-> r.out]
            ELSE [m |-> m, step |-> stp, red |-> NULL, out |-> <<>>]
        ELSE [m |-> m, step |-> stp, red |-> NULL, out |-> <<>>]

(* the Apply that eval's traversal from e rewrites (NULL: none): the same
   descent as eval and beta_reduction, without the rewriting *)
RECURSIVE redex(_, _)
redex(h, e) ==
    LET n == h[e] IN
    IF n.type = EXPR_APPLY THEN
        IF h[n.fn].type = EXPR_LAMBDA THEN e
        ELSE IF h[n.fn].type = EXPR_APPLY THEN redex(h, n.fn)
        ELSE IF h[n.arg].type = EXPR_APPLY THEN redex(h, n.arg)
        ELSE NULL
    ELSE IF n.type = EXPR_LAMBDA THEN redex(h, n.body)
    ELSE NULL

(* the orders in which a std::set<const Var*> can yield its elements: by
   address, which the allocator decides *)
Orders(S) ==
    {s \in [1 .. Cardinality(S) -> S] : \A i, j \in DOMAIN s : i # j => s[i] # s[j]}

(* the elements of `free` for which the loop of beta_reduction at the redex
   app does something: those whose name is a key of `bound`; the order of
   the others among them makes no difference *)
conflicts(h, app) ==
    {v \in find_free_variables(h, h[app].arg) :
        h[v].name \in DOMAIN find_bound_variables(h, h[app].fn)}

(* replace_vars_once as it would be if it handed out the stored definition
   itself instead of a clone of it *)
RECURSIVE replace_vars_once_shared(_, _, _, _)
replace_vars_once_shared(h, ctx, free_vars, e) ==
    LET n == h[e] IN
    IF n.type = EXPR_VAR THEN
        IF e \in free_vars /\ n.name \in DOMAIN ctx
        THEN [h |-> h, first |-> ctx[n.name], second |-> TRUE]
        ELSE LET c == clone(h, e)
             IN  [h |-> c.h, first |-> c.p, second |-> FALSE]
    ELSE IF n.type = EXPR_APPLY THEN
        LET x == replace_vars_once_shared(h, ctx, free_vars, n.fn)
            y == replace_vars_once_shared(x.h, ctx, free_vars, n.arg)
            c == New(y.h, [type |-> EXPR_APPLY, fn |-> x.first, arg |-> y.first])
        IN  [h |-> c.h, first |-> c.p, second |-> x.second \/ y.second]
    ELSE IF n.type = EXPR_LAMBDA THEN
        LET body == replace_vars_once_shared(h, ctx, free_vars, n.body)
            c == New(body.h, [type |-> EXPR_LAMBDA, arg |-> n.arg, body |-> body.first])
        IN  [h |-> c.h, first |-> c.p, second |-> body.second]
    ELSE [h |-> h, first |-> NULL, second |-> FALSE]

(* replace_vars_once as it would be if it looked at the name of a variable
   only, not at whether the occurrence is free *)
RECURSIVE replace_vars_once_named(_, _, _, _)
replace_vars_once_named(h, ctx, free_vars, e) ==
    LET n == h[e] IN
    IF n.type = EXPR_VAR THEN
        IF n.name \in DOMAIN ctx
        THEN LET c == clone(h, ctx[n.name])
             IN  [h |-> c.h, first |-> c.p, second |-> e \in free_vars]
        ELSE LET c == clone(h, e)
             IN  [h |-> c.h, first |-> c.p, second |-> FALSE]
    ELSE IF n.type = EXPR_APPLY THEN
        LET x == replace_vars_once_named(h, ctx, free_vars, n.fn)
            y == replace_vars_once_named(x.h, ctx, free_vars, n.arg)
            c == New(y.h, [type |-> EXPR_APPLY, fn |-> x.first, arg |-> y.first])
        IN  [h |-> c.h, first |-> c.p, second |-> x.second \/ y.second]
    ELSE IF n.type = EXPR_LAMBDA THEN
        LET body == replace_vars_once_named(h, ctx, free_vars, n.body)
            c == New(body.h, [type |-> EXPR_LAMBDA, arg |-> n.arg, body |-> body.first])
        IN  [h |-> c.h, first |-> c.p, second |-> body.second]
    ELSE [h |-> h, first |-> NULL, second |-> FALSE]

(* replace_vars_once(ctx, free_vars, expr): first is the new tree, second
   tells whether something was replaced *)
RECURSIVE replace_vars_once(_, _, _, _)
replace_vars_once(h, ctx, free_vars, e) ==
    LET n == h[e] IN
    IF n.type = EXPR_VAR THEN
        IF e \in free_vars /\ n.name \in DOMAIN ctx
        THEN LET c == clone(h, ctx[n.name])
             IN  [h |-> c.h, first |-> c.p, second |-> TRUE]
        ELSE LET c == clone(h, e)
             IN  [h |-> c.h, first |-> c.p, second |-> FALSE]
    ELSE IF n.type = EXPR_APPLY THEN
        LET x == replace_vars_once(h, ctx, free_vars, n.fn)
            y == replace_vars_once(x.h, ctx, free_vars, n.arg)
            c == New(y.h, [type |-> EXPR_APPLY, fn |-> x.first, arg |-> y.first])
        IN  [h |-> c.h, first |-> c.p, second |-> x.second \/ y.second]
    ELSE IF n.type = EXPR_LAMBDA THEN
        LET body == replace_vars_once(h, ctx, free_vars, n.body)
            c == New(body.h, [type |-> EXPR_LAMBDA, arg |-> n.arg, body |-> body.first])
        IN  [h |-> c.h, first |-> c.p, second |-> body.second]
    ELSE [h |-> h, first |-> NULL, second |-> FALSE]     \* abort()

(* CheckState *)
EmptyState == [var_depths |-> EmptyMap, bindings |-> EmptyMap]

(* alpha_equivalent without the comparison of free_a_names and
   free_b_names *)
RECURSIVE alpha_equivalent_unchecked(_, _, _, _, _, _)
alpha_equivalent_unchecked(h, ea, eb, cur_depth, sta, stb) ==
    LET na == h[ea]
        nb == h[eb]
    IN  IF na.type # nb.type THEN FALSE
        ELSE IF na.type = EXPR_VAR THEN
            IF na.name \in DOMAIN sta.var_depths /\ nb.name \in DOMAIN stb.var_depths
            THEN sta.var_depths[na.name] = stb.var_depths[nb.name]
            ELSE FALSE
        ELSE IF na.type = EXPR_APPLY THEN
            /\ alpha_equivalent_unchecked(h, na.fn, nb.fn, cur_depth, sta, stb)
            /\ alpha_equivalent_unchecked(h, na.arg, nb.arg, cur_depth, sta, stb)
        ELSE IF na.type = EXPR_LAMBDA THEN
            LET sta1 == [var_depths |-> (na.arg :> cur_depth) @@ sta.var_depths,
                         bindings |-> (na.arg :> ea) @@ sta.bindings]
                stb1 == [var_depths |-> (nb.arg :> cur_depth) @@ stb.var_depths,
                         bindings |-> (nb.arg :> eb) @@ stb.bindings]
            IN  alpha_equivalent_unchecked(h, na.body, nb.body, cur_depth + 1, sta1, stb1)
        ELSE FALSE

(* alpha_equivalent as it would be if two variables that are both free
   compared equal: the comparison of the names is then what tells x from y *)
RECURSIVE alpha_equivalent_free_equal(_, _, _, _, _, _)
alpha_equivalent_free_equal(h, ea, eb, cur_depth, sta, stb) ==
    LET na == h[ea]
        nb == h[eb]
        free_a == find_variables(FALSE, 1, h, sta.bindings, ea, 0)
        free_b == find_variables(FALSE, 1, h, stb.bindings, eb, 0)
        free_a_names == {h[v].name : v \in free_a}
        free_b_names == {h[v].name : v \in free_b}
    IN  IF na.type # nb.type THEN FALSE
        ELSE IF free_a_names # free_b_names THEN FALSE
        ELSE IF na.type = EXPR_VAR THEN
            IF na.name \in DOMAIN sta.var_depths /\ nb.name \in DOMAIN stb.var_depths
            THEN sta.var_depths[na.name] = stb.var_depths[nb.name]
            ELSE na.name \notin DOMAIN sta.var_depths
                    /\ nb.name \notin DOMAIN stb.var_depths
        ELSE IF na.type = EXPR_APPLY THEN
            /\ alpha_equivalent_free_equal(h, na.fn, nb.fn, cur_depth, sta, stb)
            /\ alpha_equivalent_free_equal(h, na.arg, nb.arg, cur_depth, sta, stb)
        ELSE IF na.type = EXPR_LAMBDA THEN
            LET sta1 == [var_depths |-> (na.arg :> cur_depth) @@ sta.var_depths,
                         bindings |-> (na.arg :> ea) @@ sta.bindings]
                stb1 == [var_depths |-> (nb.arg :> cur_depth) @@ stb.var_depths,
                         bindings |-> (nb.arg :> eb) @@ stb.bindings]
            IN  alpha_equivalent_free_equal(h, na.body, nb.body, cur_depth + 1, sta1, stb1)
        ELSE FALSE

(* alpha_equivalent as it would be if the depth recorded for a name were
   kept when an inner Lambda binds the name again (insert in place of
   operator[]) *)
RECURSIVE alpha_equivalent_first_binding(_, _, _, _, _, _)
alpha_equivalent_first_binding(h, ea, eb, cur_depth, sta, stb) ==
    LET na == h[ea]
        nb == h[eb]
        free_a == find_variables(FALSE, 1, h, sta.bindings, ea, 0)
        free_b == find_variables(FALSE, 1, h, stb.bindings, eb, 0)
        free_a_names == {h[v].name : v \in free_a}
        free_b_names == {h[v].name : v \in free_b}
    IN  IF na.type # nb.type THEN FALSE
        ELSE IF free_a_names # free_b_names THEN FALSE
        ELSE IF na.type = EXPR_VAR THEN
            IF na.name \in DOMAIN sta.var_depths /\ nb.name \in DOMAIN stb.var_depths
            THEN sta.var_depths[na.name] = stb.var_depths[nb.name]
            ELSE FALSE
        ELSE IF na.type = EXPR_APPLY THEN
            /\ alpha_equivalent_first_binding(h, na.fn, nb.fn, cur_depth, sta, stb)
            /\ alpha_equivalent_first_binding(h, na.arg, nb.arg, cur_depth, sta, stb)
        ELSE IF na.type = EXPR_LAMBDA THEN
            LET sta1 == [var_depths |-> sta.var_depths @@ (na.arg :> cur_depth),
                         bindings |-> (na.arg :> ea) @@ sta.bindings]
                stb1 == [var_depths |-> stb.var_depths @@ (nb.arg :> cur_depth),
                         bindings |-> (nb.arg :> eb) @@ stb.bindings]
            IN  alpha_equivalent_first_binding(h, na.body, nb.body, cur_depth + 1, sta1, stb1)
        ELSE FALSE

(* alpha_equivalent(a, b, cur_depth, sta, stb): the structural oracle *)
RECURSIVE alpha_equivalent(_, _, _, _, _, _)
alpha_equivalent(h, ea, eb, cur_depth, sta, stb) ==
    LET na == h[ea]
        nb == h[eb]
        free_a == find_variables(FALSE, 1, h, sta.bindings, ea, 0)
        free_b == find_variables(FALSE, 1, h, stb.bindings, eb, 0)
        free_a_names == {h[v].name : v \in free_a}
        free_b_names == {h[v].name : v \in free_b}
    IN  IF na.type # nb.type THEN FALSE
        ELSE IF free_a_names # free_b_names THEN FALSE
        ELSE IF na.type = EXPR_VAR THEN
            IF na.name \in DOMAIN sta.var_depths /\ nb.name \in DOMAIN stb.var_depths
            THEN sta.var_depths[na.name] = stb.var_depths[nb.name]
            ELSE FALSE
        ELSE IF na.type = EXPR_APPLY THEN
            /\ alpha_equivalent(h, na.fn, nb.fn, cur_depth, sta, stb)
            /\ alpha_equivalent(h, na.arg, nb.arg, cur_depth, sta, stb)
        ELSE IF na.type = EXPR_LAMBDA THEN
            LET sta1 == [var_depths |-> (na.arg :> cur_depth) @@ sta.var_depths,
                         bindings |-> (na.arg :> ea) @@ sta.bindings]
                stb1 == [var_depths |-> (nb.arg :> cur_depth) @@ stb.var_depths,
                         bindings |-> (nb.arg :> eb) @@ stb.bindings]
            IN  alpha_equivalent(h, na.body, nb.body, cur_depth + 1, sta1, stb1)
        ELSE FALSE                           \* abort()


---------------------------------------------------------------------------
(* Addresses carry no meaning of their own: after every operation the heap
   is renumbered by a traversal from the program's pointers (the stored
   definitions in key order, then expr, ret, copy and a), every node after
   its children, and the nodes no pointer leads to any more (leaked or
   dropped) are left out.  Sharing between the trees is kept. *)

(* the nodes met from the pointers of stack, in the order met *)
RECURSIVE Visit(_, _, _)
Visit(h, stack, seen) ==
    IF stack = <<>> THEN seen
    ELSE LET p == Head(stack) IN
         IF p = NULL \/ p \in Range(seen) THEN Visit(h, Tail(stack), seen)
         ELSE Visit(h, Children(h[p]) \o Tail(stack), Append(seen, p))

(* the node at p and the nodes below it moved to the heap st.new, children
   first; st.memo tells where a node met before went, so that a node two
   pointers lead to stays one node *)
RECURSIVE Move(_, _, _)
Move(h, st, p) ==
    IF p = NULL THEN [new |-> st.new, memo |-> st.memo, p |-> NULL]
    ELSE IF st.memo[p] # NULL THEN [new |-> st.new, memo |-> st.memo, p |-> st.memo[p]]
    ELSE
        LET n == h[p] IN
        IF n.type = EXPR_APPLY THEN
            LET f == Move(h, st, n.fn)
                x == Move(h, f, n.arg)
                q == Len(x.new) + 1
            IN  [new |-> Append(x.new, [n EXCEPT !.fn = f.p, !.arg = x.p]),
                 memo |-> [x.memo EXCEPT ![p] = q], p |-> q]
        ELSE IF n.type = EXPR_LAMBDA THEN
            LET b == Move(h, st, n.body)
                q == Len(b.new) + 1
            IN  [new |-> Append(b.new, [n EXCEPT !.body = b.p]),
                 memo |-> [b.memo EXCEPT ![p] = q], p |-> q]
        ELSE IF n.type = EXPR_LET THEN
            LET v == Move(h, st, n.value)
                q == Len(v.new) + 1
            IN  [new |-> Append(v.new, [n EXCEPT !.value = v.p]),
                 memo |-> [v.memo EXCEPT ![p] = q], p |-> q]
        ELSE
            LET q == Len(st.new) + 1
            IN  [new |-> Append(st.new, n), memo |-> [st.memo EXCEPT ![p] = q], p |-> q]

RECURSIVE MoveAll(_, _, _, _)
MoveAll(h, st, roots, done) ==
    IF Len(done) = Len(roots) THEN [h |-> st.new, roots |-> done]
    ELSE LET m == Move(h, st, roots[Len(done) + 1])
         IN  MoveAll(h, m, roots, Append(done, m.p))

Canon(h, roots) ==
    MoveAll(h, [new |-> <<>>, memo |-> [i \in DOMAIN h |-> NULL]], roots, <<>>)

(* the next values of the heap and of the program's pointers *)
Commit(h, ctx, e, r, c, x) ==
    LET keys == SelectSeq(NameSeq, LAMBDA n : n \in DOMAIN ctx)
        k == Len(keys)
        g == Canon(h, [i \in 1 .. k |-> ctx[keys[i]]] \o <<e, r, c, x>>)
    IN  /\ heap' = g.h
        /\ vars' = [n \in DOMAIN ctx |-> g.roots[CHOOSE i \in 1 .. k : keys[i] = n]]
        /\ expr' = g.roots[k + 1]
        /\ ret' = g.roots[k + 2]
        /\ copy' = g.roots[k + 3]
        /\ a' = g.roots[k + 4]

(* the names used in the term at p *)
RECURSIVE NamesIn(_, _)
NamesIn(h, p) ==
    LET n == h[p] IN
    IF n.type = EXPR_VAR THEN {n.name}
    ELSE IF n.type = EXPR_APPLY THEN NamesIn(h, n.fn) \cup NamesIn(h, n.arg)
    ELSE IF n.type = EXPR_LAMBDA THEN {n.arg} \cup NamesIn(h, n.body)
    ELSE {}

(* the term at p is within what the model follows *)
Followed(h, p) ==
    /\ Size(h, p) <= MaxNodes
    /\ \A n \in NamesIn(h, p) : Len(n) <= MaxNameLen

Min(i, j) == IF i < j THEN i ELSE j

---------------------------------------------------------------------------
(* defs.h: the bits of Context::flags *)
FLAG_ABBREV_LAMBDA == 1
FLAG_ABBREV_PARENS == 2
FLAG_HASKELL_STYLE == 4
FLAG_NO_PRINT == 8
FLAG_TRACE == 16
FLAG_FULL_TRACE == 32
FLAG_VAR_REPLACEMENT == 64

(* f & bit, as a truth value *)
HasFlag(f, bit) == (f \div bit) % 2 = 1

(* f ^= bit *)
Toggle(f, bit) == IF HasFlag(f, bit) THEN f - bit ELSE f + bit

(* f |= bit *)
SetFlag(f, bit) == IF HasFlag(f, bit) THEN f ELSE f + bit

(* evaluate's argument print_flags: ctx.flags when evalLine or loadFile
   calls, 0 when alpha_equivalent(ctx, a, b) calls *)
print_flags == IF a # NULL THEN 0 ELSE flags

(* print_trace writes under FLAG_TRACE, do_transform under FLAG_TRACE and
   FLAG_FULL_TRACE *)
Traced(f, out) ==
    SelectSeq(out, LAMBDA e :
        IF e.kind \in {"before", "after"}
        THEN HasFlag(f, FLAG_FULL_TRACE) /\ HasFlag(f, FLAG_TRACE)
        ELSE HasFlag(f, FLAG_TRACE))

---------------------------------------------------------------------------
(* evaluate(ctx, expr, print_flags), called by the client or evalLine at
   "idle" and by loadFile at "load" *)

(* the Let branch as it would be if it stored let->value itself *)
EvaluateLetShared(t) ==
    /\ pc \in {"idle", "load"}
    /\ t.type = EXPR_LET
    /\ LET b == Build(heap, t)
           let == b.p
       IN  Commit(b.h, (t.name :> b.h[let].value) @@ vars, let, NULL,
                  b.h[let].value, NULL)
    /\ exists' = (t.name \in DOMAIN vars)
    /\ pc' = "done"
    /\ input' = t
    /\ step' = 0
    /\ UNCHANGED <<flags, visited>>
    /\ trace' = Traced(print_flags,
                     <<Event(IF t.name \in DOMAIN vars THEN "redefined" ELSE "defined",
                             0, t.name, NoInput)>>)

(* the Let branch as it would be if it stored the right-hand side with the
   definitions of the moment inlined in it *)
EvaluateLetInlined(t) ==
    /\ pc \in {"idle", "load"}
    /\ t.type = EXPR_LET
    /\ LET b == Build(heap, t)
           let == b.p
           r == replace_vars_once(b.h, vars, find_free_variables(b.h, b.h[let].value),
                                  b.h[let].value)
       IN  Commit(r.h, (t.name :> r.first) @@ vars, let, NULL, r.h[let].value, NULL)
    /\ exists' = (t.name \in DOMAIN vars)
    /\ pc' = "done"
    /\ input' = t
    /\ step' = 0
    /\ UNCHANGED <<flags, visited>>
    /\ trace' = Traced(print_flags,
                     <<Event(IF t.name \in DOMAIN vars THEN "redefined" ELSE "defined",
                             0, t.name, NoInput)>>)

(* the Let branch: the definition is stored as a clone of the right-hand
   side, and let->value itself is returned *)
EvaluateLet(t) ==
    /\ pc \in {"idle", "load"}
    /\ t.type = EXPR_LET
    /\ LET b == Build(heap, t)
           let == b.p
           c == clone(b.h, b.h[let].value)
       IN  Commit(c.h, (t.name :> c.p) @@ vars, let, NULL, c.h[let].value, NULL)
    /\ exists' = (t.name \in DOMAIN vars)
    /\ pc' = "done"
    /\ input' = t
    /\ step' = 0
    /\ UNCHANGED <<flags, visited>>
    /\ trace' = Traced(print_flags,
                     <<Event(IF t.name \in DOMAIN vars THEN "redefined" ELSE "defined",
                             0, t.name, NoInput)>>)

(* any other expression: replace_vars is entered with ret = expr *)
EvaluateExpr(t) ==
    /\ pc \in {"idle", "load"}
    /\ t.type # EXPR_LET
    /\ LET b == Build(heap, t)
       IN  Commit(b.h, vars, b.p, b.p, NULL, NULL)
    /\ pc' = "replace"
    /\ input' = t
    /\ step' = 0
    /\ UNCHANGED <<flags, exists, visited>>
    /\ trace' = <<>>

(* the turn of replace_vars as it would be without the test ret != expr
   before delete ret *)
ReplaceVarsAgainFreeing ==
    /\ pc = "replace"
    /\ Followed(heap, ret)
    /\ Size(heap, ret) <= MaxInlineSize
    /\ LET r == replace_vars_once(heap, vars, find_free_variables(heap, ret), ret)
           h1 == Delete(r.h, ret)
       IN  /\ r.second
           /\ Commit(h1, vars, expr, r.first, NULL, a)
    /\ visited' = visited \cup {TermOf(heap, ret)}
    /\ UNCHANGED <<flags, pc, step, exists, input, todo, results>>
    /\ UNCHANGED <<printing, loading>>
    /\ UNCHANGED trace

(* replace_vars: one turn of while(true) in which something was replaced *)
ReplaceVarsAgain ==
    /\ pc = "replace"
    /\ Followed(heap, ret)
    /\ Size(heap, ret) <= MaxInlineSize
    /\ \E r \in {replace_vars_once(heap, vars, find_free_variables(heap, ret), ret)} :
           /\ r.second
           /\ Commit(IF ret # expr THEN Delete(r.h, ret) ELSE r.h,
                     vars, expr, r.first, NULL, a)
    /\ visited' = visited \cup {TermOf(heap, ret)}
    /\ UNCHANGED <<flags, pc, step, exists, input, todo, results>>
    /\ UNCHANGED <<printing, loading>>
    /\ UNCHANGED trace

(* replace_vars: the turn in which nothing was replaced returns the new tree,
   which becomes evaluate's copy; step = 1 *)
ReplaceVarsReturn ==
    /\ pc = "replace"
    /\ \E r \in {replace_vars_once(heap, vars, find_free_variables(heap, ret), ret)} :
           /\ ~r.second
           /\ Commit(r.h, vars, expr, NULL, r.first, a)
           /\ trace' = trace \o Traced(print_flags,
                                        <<Event("0", 0, "", TermOf(r.h, r.first))>>)
    /\ pc' = "reduce"
    /\ step' = 1
    /\ visited' = {}
    /\ UNCHANGED <<flags, exists, input, todo, results>>
    /\ UNCHANGED <<printing, loading>>

(* one turn of while(copy) in which eval rewrote something: copy = next *)
EvalStep ==
    /\ pc = "reduce"
    /\ redex(heap, copy) # NULL
    /\ Followed(heap, copy)
    /\ \E order \in Orders(conflicts(heap, redex(heap, copy))) :
         \E r \in {eval([h |-> heap, copy |-> copy], step, CopySlot, order)} :
             /\ Commit(r.m.h, vars, expr, NULL, r.red, a)
             /\ step' = Min(r.step, MaxSteps)
             /\ trace' = IF step < MaxSteps
                         THEN trace \o Traced(print_flags, r.out)
                         ELSE trace
    /\ visited' = visited \cup {TermOf(heap, copy)}
    /\ UNCHANGED <<flags, pc, exists, input, todo, results>>
    /\ UNCHANGED <<printing, loading>>

(* the turn in which eval returned nullptr: break, and evaluate returns copy *)
EvalBreak ==
    /\ pc = "reduce"
    /\ redex(heap, copy) = NULL
    /\ pc' = "done"
    /\ UNCHANGED <<heap, vars, flags, expr, ret, copy, step, exists, a, input, todo,
                   results, visited>>
    /\ UNCHANGED <<printing, loading>>
    /\ trace' = trace \o Traced(print_flags, <<Event("done", 0, "", NoInput)>>)

(* the caller of evaluate takes the result; the trees it holds are dropped *)
Return ==
    /\ pc \in {"done", "compared"}
    /\ pc = "done" => a = NULL
    /\ Commit(heap, vars, NULL, NULL, NULL, NULL)
    /\ pc' = "idle"
    /\ input' = NoInput
    /\ step' = 0
    /\ results' = <<>>
    /\ visited' = {}
    /\ exists' = FALSE
    /\ UNCHANGED <<flags, todo>>
    /\ UNCHANGED <<printing, loading>>
    /\ trace' = <<>>

(* alpha_equivalent(ctx, a, b) with b a stored definition: b is evaluated *)
AlphaEquivalentCall(t, name) ==
    /\ pc = "idle"
    /\ name \in DOMAIN vars
    /\ LET b == Build(heap, t)
       IN  Commit(b.h, vars, vars[name], vars[name], NULL, b.p)
    /\ pc' = "replace"
    /\ input' = TermOf(heap, vars[name])
    /\ step' = 0
    /\ UNCHANGED <<flags, exists, todo, results, visited>>
    /\ UNCHANGED <<printing, loading>>
    /\ trace' = <<>>

(* ... and a is compared with the result bb, which is then deleted *)
AlphaEquivalentReturn ==
    /\ pc = "done"
    /\ a # NULL
    /\ results' = <<alpha_equivalent(heap, a, copy, 0, EmptyState, EmptyState)>>
    /\ Commit(Delete(heap, copy), vars, expr, NULL, NULL, a)
    /\ pc' = "compared"
    /\ UNCHANGED <<flags, step, exists, input, todo, visited>>
    /\ UNCHANGED <<printing, loading>>
    /\ UNCHANGED trace

---------------------------------------------------------------------------
(* The interpreter driven by a client that submits any definition or
   expression at any time *)

Exprs == TermsUpTo(Names, MaxTermSize)
DefValues == TermsUpTo(Names, MaxDefSize)
CompareTerms == TermsUpTo(Names, MaxCompareSize)
OracleTerms(names) == TermsUpTo(names, MaxOracleSize)

Init ==
    /\ heap = <<>>
    /\ vars = EmptyMap
    /\ flags = 0
    /\ pc = "idle"
    /\ expr = NULL
    /\ ret = NULL
    /\ copy = NULL
    /\ step = 0
    /\ exists = FALSE
    /\ a = NULL
    /\ input = NoInput
    /\ todo = <<>>
    /\ results = <<>>
    /\ visited = {}
    /\ printing = NoPrinting
    /\ loading = NoLoading
    /\ trace = <<>>

Define ==
    /\ pc = "idle"
    /\ \E n \in Names, v \in DefValues : EvaluateLet(MkLet(n, v))
    /\ UNCHANGED <<todo, results>>
    /\ UNCHANGED <<printing, loading>>

Submit ==
    /\ pc = "idle"
    /\ \E t \in Exprs : EvaluateExpr(t)
    /\ UNCHANGED <<todo, results>>
    /\ UNCHANGED <<printing, loading>>

Compare ==
    /\ pc = "idle"
    /\ \E t \in CompareTerms, n \in DOMAIN vars : AlphaEquivalentCall(t, n)

Next ==
    \/ Define
    \/ Submit
    \/ Compare
    \/ ReplaceVarsAgain
    \/ ReplaceVarsReturn
    \/ EvalStep
    \/ EvalBreak
    \/ AlphaEquivalentReturn
    \/ Return

Spec == Init /\ [][Next]_vars_all


---------------------------------------------------------------------------
(* Reference notions the properties are stated with: terms with de Bruijn
   indices for the bound variables and names for the free ones *)

DBBound(i) == [k |-> 0, i |-> i]
DBFree(n) == [k |-> 1, n |-> n]
DBApply(f, x) == [k |-> 2, f |-> f, x |-> x]
DBLambda(b) == [k |-> 3, b |-> b]

RECURSIVE DB(_, _)
DB(t, env) ==
    IF t.type = EXPR_VAR THEN
        IF \E i \in DOMAIN env : env[i] = t.name
        THEN DBBound((CHOOSE i \in DOMAIN env :
                        env[i] = t.name /\ \A j \in 1 .. (i - 1) : env[j] # t.name) - 1)
        ELSE DBFree(t.name)
    ELSE IF t.type = EXPR_APPLY THEN DBApply(DB(t.fn, env), DB(t.arg, env))
    ELSE DBLambda(DB(t.body, <<t.arg>> \o env))

(* equal up to the names of the bound variables *)
AlphaEq(t, u) == DB(t, <<>>) = DB(u, <<>>)

RECURSIVE Shift(_, _, _)
Shift(d, c, t) ==
    IF t.k = 0 THEN IF t.i >= c THEN DBBound(t.i + d) ELSE t
    ELSE IF t.k = 1 THEN t
    ELSE IF t.k = 2 THEN DBApply(Shift(d, c, t.f), Shift(d, c, t.x))
    ELSE DBLambda(Shift(d, c + 1, t.b))

RECURSIVE SubstDB(_, _, _)
SubstDB(j, s, t) ==
    IF t.k = 0 THEN IF t.i = j THEN s ELSE t
    ELSE IF t.k = 1 THEN t
    ELSE IF t.k = 2 THEN DBApply(SubstDB(j, s, t.f), SubstDB(j, s, t.x))
    ELSE DBLambda(SubstDB(j + 1, Shift(1, 0, s), t.b))

(* the capture-avoiding B[x := A] of the redex (\x.B) A *)
Contract(t) == Shift(-1, 0, SubstDB(0, Shift(1, 0, t.x), t.f.b))

IsRedex(t) == t.k = 2 /\ t.f.k = 3

RECURSIVE HasRedex(_)
HasRedex(t) ==
    IF t.k = 2 THEN IsRedex(t) \/ HasRedex(t.f) \/ HasRedex(t.x)
    ELSE IF t.k = 3 THEN HasRedex(t.b)
    ELSE FALSE

(* a term as written is in normal form *)
IsNormal(t) == ~HasRedex(DB(t, <<>>))

(* one step of normal-order reduction: the leftmost-outermost redex *)
RECURSIVE NormalOrderStep(_)
NormalOrderStep(t) ==
    IF t.k = 2 THEN
        IF IsRedex(t) THEN Contract(t)
        ELSE IF HasRedex(t.f) THEN DBApply(NormalOrderStep(t.f), t.x)
        ELSE DBApply(t.f, NormalOrderStep(t.x))
    ELSE IF t.k = 3 THEN DBLambda(NormalOrderStep(t.b))
    ELSE t

RECURSIVE NormalizesWithin(_, _)
NormalizesWithin(t, fuel) ==
    IF ~HasRedex(t) THEN TRUE
    ELSE IF fuel = 0 THEN FALSE
    ELSE NormalizesWithin(NormalOrderStep(t), fuel - 1)

(* the term has a normal form that normal-order reduction reaches within
   RefFuel steps *)
RefFuel == 12
HasNormalForm(t) == NormalizesWithin(DB(t, <<>>), RefFuel)

---------------------------------------------------------------------------
(* Scripted runs: the inputs are fixed beforehand and submitted one after
   the other; what each call returned is recorded next to its input *)

(* a small prelude of combinators, and the expressions over their names and
   one free variable *)
Prelude ==
    <<MkLet("k", MkLambda("x", MkLambda("y", MkVar("x")))),
      MkLet("w", MkLambda("x", MkApply(MkVar("x"), MkVar("x"))))>>

CombNames == {"k", "w", "y"}

RECURSIVE CombsOfLeaves(_, _)
CombsOfLeaves(names, k) ==
    IF k = 1 THEN {MkVar(n) : n \in names}
    ELSE UNION {{MkApply(f, x) : f \in CombsOfLeaves(names, i),
                                 x \in CombsOfLeaves(names, k - i)}
                : i \in 1 .. (k - 1)}

(* a definition, and then the same one again or any small one *)
LetPairs(names) ==
    LET first == {MkLet(n, v) : n \in names, v \in TermsUpTo(names, MaxLetSize)}
        small == {MkLet(n, v) : n \in names, v \in TermsUpTo(names, MaxDefSize)}
    IN  {<<l, l>> : l \in first} \cup {<<l, m>> : l \in first, m \in small}

(* \m.\n.((\n.n m) (n m)) applied to any small argument: the argument
   ends up below a binder that was renamed, next to a binder that was not *)
MaxArgSize == 4
ShadowedPairs(names) ==
    {<<MkApply(MkLambda(m, MkLambda(n,
            MkApply(MkLambda(n, MkApply(MkVar(n), MkVar(m))),
                    MkApply(MkVar(n), MkVar(m))))), x)>> :
        m \in names, n \in names, x \in TermsUpTo(names, MaxArgSize)}

(* a name defined as another name and that one as some term, in either
   order; the first name evaluated; the second name defined anew; the first
   name evaluated again *)
Ends(names) == {MkVar("k"), MkVar("w")} \cup TermsUpTo(names, MaxDefSize)
LateBound(names) ==
    UNION {{<<MkLet(n, MkVar(m)), MkLet(m, c), MkVar(n), MkLet(m, d), MkVar(n)>>,
            <<MkLet(m, c), MkLet(n, MkVar(m)), MkVar(n), MkLet(m, d), MkVar(n)>>} :
              n \in names, m \in names, c \in Ends(names), d \in Ends(names)}

(* \m.\n.m n applied to \m.(\m.\n.b) (m n) for any small b: the first
   step renames n, the second one puts the renamed n next to a free n in the
   argument of a function that binds n *)
MaxBodySize == 3
RenamedTwice(names) ==
    {<<MkApply(MkLambda(m, MkLambda(n, MkApply(MkVar(m), MkVar(n)))),
               MkLambda(m, MkApply(MkLambda(m, MkLambda(n, b)),
                                   MkApply(MkVar(m), MkVar(n)))))>> :
        m \in names, n \in names, b \in TermsUpTo(names, MaxBodySize)}

(* the scripts: one expression; two different expressions that are equal up
   to the names of bound variables; the prelude and then an expression over
   it; two definitions; an expression with a shadowed pair of binders; a
   name evaluated before and after a redefinition; an expression that takes
   two renamings of the same name *)
Scripts(names) ==
    {<<t>> : t \in TermsUpTo(names, MaxRunSize)}
    \cup {<<p[1], p[2]>> :
            p \in {q \in TermsUpTo(names, MaxPairSize) \X TermsUpTo(names, MaxPairSize) :
                     q[1] # q[2] /\ AlphaEq(q[1], q[2])}}
    \cup {Prelude \o <<t>> :
            t \in UNION {CombsOfLeaves(CombNames, k) : k \in 1 .. MaxLeaves}}
    \cup LetPairs(names)
    \cup ShadowedPairs(names)
    \cup LateBound(names)
    \cup RenamedTwice(names)

InitRun ==
    /\ heap = <<>>
    /\ vars = EmptyMap
    /\ flags = 0
    /\ pc = "idle"
    /\ expr = NULL
    /\ ret = NULL
    /\ copy = NULL
    /\ step = 0
    /\ exists = FALSE
    /\ a = NULL
    /\ input = NoInput
    /\ todo \in Scripts(Names)
    /\ results = <<>>
    /\ visited = {}
    /\ printing = NoPrinting
    /\ loading = NoLoading
    /\ trace = <<>>

ScriptSubmit ==
    /\ todo # <<>>
    /\ \/ EvaluateLet(Head(todo))
       \/ EvaluateExpr(Head(todo))
    /\ todo' = Tail(todo)
    /\ UNCHANGED results
    /\ UNCHANGED <<printing, loading>>

ScriptReturn ==
    /\ pc = "done"
    /\ results' = Append(results, [input |-> input, output |-> TermOf(heap, copy)])
    /\ Commit(heap, vars, NULL, NULL, NULL, NULL)
    /\ pc' = "idle"
    /\ input' = NoInput
    /\ step' = 0
    /\ visited' = {}
    /\ exists' = FALSE
    /\ UNCHANGED <<flags, todo>>
    /\ UNCHANGED <<printing, loading>>
    /\ trace' = <<>>

NextRun ==
    \/ ScriptSubmit
    \/ ReplaceVarsAgain
    \/ ReplaceVarsReturn
    \/ EvalStep
    \/ EvalBreak
    \/ ScriptReturn

SpecRun == InitRun /\ [][NextRun]_vars_all


---------------------------------------------------------------------------
(* The structural comparison on its own: three terms are built and the
   comparison is called on the ordered pairs of them *)

OracleCall(h, x, y) == alpha_equivalent(h, x, y, 0, EmptyState, EmptyState)

InitOracle ==
    /\ heap = <<>>
    /\ vars = EmptyMap
    /\ flags = 0
    /\ pc = "idle"
    /\ expr = NULL
    /\ ret = NULL
    /\ copy = NULL
    /\ step = 0
    /\ exists = FALSE
    /\ a = NULL
    /\ input = NoInput
    /\ todo \in OracleTerms(Names) \X OracleTerms(Names) \X OracleTerms(Names)
    /\ results = <<>>
    /\ visited = {}
    /\ printing = NoPrinting
    /\ loading = NoLoading
    /\ trace = <<>>

OracleCompare ==
    /\ pc = "idle"
    /\ Len(todo) = 3
    /\ LET b1 == Build(heap, todo[1])
           b2 == Build(b1.h, todo[2])
           b3 == Build(b2.h, todo[3])
           h == b3.h
       IN /\ Commit(h, vars, b2.p, NULL, b3.p, b1.p)
          /\ results' = <<[aa |-> OracleCall(h, b1.p, b1.p),
                           ab |-> OracleCall(h, b1.p, b2.p),
                           ba |-> OracleCall(h, b2.p, b1.p),
                           bc |-> OracleCall(h, b2.p, b3.p),
                           ac |-> OracleCall(h, b1.p, b3.p)]>>
    /\ pc' = "compared"
    /\ todo' = <<>>
    /\ UNCHANGED <<flags, step, exists, input, visited>>
    /\ UNCHANGED <<printing, loading>>
    /\ UNCHANGED trace

NextOracle == OracleCompare

SpecOracle == InitOracle /\ [][NextOracle]_vars_all

---------------------------------------------------------------------------
(* The renaming on its own: a binder \name.B is built and renamed to fresh *)

ConvNames == {"x", "x'", "y"}
ConvCalls(names) ==
    {<<[lambda |-> MkLambda(n, B), name |-> n, fresh |-> f]>> :
        n \in names, B \in TermsUpTo(names, MaxConvSize), f \in names}

InitConv ==
    /\ heap = <<>>
    /\ vars = EmptyMap
    /\ flags = 0
    /\ pc = "idle"
    /\ expr = NULL
    /\ ret = NULL
    /\ copy = NULL
    /\ step = 0
    /\ exists = FALSE
    /\ a = NULL
    /\ input = NoInput
    /\ todo \in ConvCalls(ConvNames)
    /\ results = <<>>
    /\ visited = {}
    /\ printing = NoPrinting
    /\ loading = NoLoading
    /\ trace = <<>>

AlphaConversionCall ==
    /\ pc = "idle"
    /\ Len(todo) = 1
    /\ LET call == todo[1]
           b == Build(heap, call.lambda)
           r == alpha_conversion(b.h, b.p, call.name, call.fresh)
       IN /\ Commit(r.h, vars, NULL, NULL, r.p, NULL)
          /\ input' = call
          /\ results' = <<TermOf(r.h, r.p)>>
    /\ pc' = "done"
    /\ todo' = <<>>
    /\ UNCHANGED <<flags, step, exists, visited>>
    /\ UNCHANGED <<printing, loading>>
    /\ UNCHANGED trace

NextConv == AlphaConversionCall

SpecConv == InitConv /\ [][NextConv]_vars_all


---------------------------------------------------------------------------
(* The lexer and the parser.  A line is a sequence of lexemes: " " is a
   run of spaces, "?" a character no token starts with; a line that starts
   with ':' or '#' is one lexeme, since it is never split. *)

Identifiers == Names
Punctuation == {"(", ")", "->", ".", "\\", "=", "$"}
Keywords == {"let", "in"}
Space == " "
Invalid == "?"

(* the TokenType of a lexeme *)
TT(l) ==
    IF l = "(" THEN "LParen"
    ELSE IF l = ")" THEN "RParen"
    ELSE IF l = "->" THEN "RightArrow"
    ELSE IF l = "." THEN "Period"
    ELSE IF l = "\\" THEN "Lambda"
    ELSE IF l = "=" THEN "Equal"
    ELSE IF l = "$" THEN "Dollar"
    ELSE IF l = "let" THEN "Let"
    ELSE IF l = "in" THEN "In"
    ELSE IF l \in Identifiers THEN "Identifier"
    ELSE "Invalid"

(* lex(src): whitespace is skipped; the first lexeme that is no token is
   the error *)
lex(src) ==
    LET text == SelectSeq(src, LAMBDA l : l # Space)
    IN  IF \E i \in DOMAIN text : TT(text[i]) = "Invalid"
        THEN [ok |-> FALSE, tokens |-> <<>>]
        ELSE [ok |-> TRUE, tokens |-> text]

(* State::peek and State::pop *)
peek(st) == IF st = <<>> THEN "EndOfFile" ELSE TT(Head(st))
pop(st) == IF st = <<>> THEN <<>> ELSE Tail(st)

make_error(st) == [ok |-> FALSE, ast |-> NoInput, st |-> st]
Ok(ast, st) == [ok |-> TRUE, ast |-> ast, st |-> st]

RECURSIVE parseExpr(_), parseUnary(_), parseParenthesised(_), parseLambda(_),
          parseApply(_, _)

parseUnary(st) ==
    IF peek(st) = "LParen" THEN parseParenthesised(st)
    ELSE IF peek(st) = "Identifier" THEN Ok(MkVar(Head(st)), pop(st))
    ELSE IF peek(st) = "Lambda" THEN parseLambda(st)
    ELSE make_error(st)

parseParenthesised(st) ==
    IF peek(st) # "LParen" THEN make_error(pop(st))
    ELSE LET e == parseExpr(pop(st)) IN
         IF ~e.ok THEN e
         ELSE IF peek(e.st) # "RParen" THEN make_error(pop(e.st))
         ELSE Ok(e.ast, pop(e.st))

(* \x y z . a b c is \x.\y.\z.(a b c) *)
parseLambda(st) ==
    LET st1 == IF peek(st) = "Lambda" THEN pop(st) ELSE st IN
    IF peek(st1) # "Identifier" THEN make_error(st1)
    ELSE LET arg == Head(st1)
             st2 == pop(st1)
         IN  IF peek(st2) \in {"RightArrow", "Period"} THEN
                 LET body == parseExpr(pop(st2)) IN
                 IF ~body.ok THEN body ELSE Ok(MkLambda(arg, body.ast), body.st)
             ELSE IF peek(st2) = "Identifier" THEN
                 LET sub == parseLambda(st2) IN
                 IF ~sub.ok THEN sub ELSE Ok(MkLambda(arg, sub.ast), sub.st)
             ELSE make_error(st2)

parseApply(st, lhs) ==
    IF st = <<>> THEN lhs
    ELSE IF peek(st) = "RParen" THEN lhs
    ELSE LET rhs == parseUnary(st) IN
         IF ~rhs.ok THEN rhs
         ELSE parseApply(rhs.st, Ok(MkApply(lhs.ast, rhs.ast), rhs.st))

parseExpr(st) ==
    LET left == parseUnary(st) IN
    IF ~left.ok THEN left ELSE parseApply(left.st, left)

parseLet(st) ==
    LET st1 == pop(st) IN
    IF peek(st1) # "Identifier" THEN make_error(pop(st1))
    ELSE IF peek(pop(st1)) # "Equal" THEN make_error(pop(pop(st1)))
    ELSE LET value == parseExpr(pop(pop(st1))) IN
         IF ~value.ok THEN value ELSE Ok(MkLet(Head(st1), value.ast), value.st)

parseStmt(st) == IF peek(st) = "Let" THEN parseLet(st) ELSE parseExpr(st)

(* parse(str) *)
parse(str) ==
    IF str = <<>> THEN make_error(<<>>)
    ELSE LET tokens == lex(str) IN
         IF ~tokens.ok THEN make_error(<<>>)
         ELSE LET r == parseStmt(tokens.tokens) IN
              IF ~r.ok THEN r
              ELSE IF r.st # <<>> THEN make_error(r.st)
              ELSE r

(* trim(s): leading and trailing spaces are dropped.  On a line of nothing
   but spaces the second loop of trim reads the character before the view,
   which is the last of those spaces, and remove_suffix does nothing to an
   empty view: the loop does not end.  hangs = TRUE stands for that. *)
RECURSIVE DropSpaces(_)
DropSpaces(s) == IF s # <<>> /\ Head(s) = Space THEN DropSpaces(Tail(s)) ELSE s

Reverse(s) == [i \in 1 .. Len(s) |-> s[Len(s) + 1 - i]]

trim(s) ==
    LET front == DropSpaces(s)
    IN  IF front = <<>> /\ s # <<>>
        THEN [hangs |-> TRUE, s |-> <<>>]
        ELSE [hangs |-> FALSE, s |-> Reverse(DropSpaces(Reverse(front)))]

(* a line a user can type for the term t: application is left-associative,
   the argument of an application is bracketed unless it is a name, and so is
   a function that is a lambda *)
RECURSIVE Written(_)
Written(t) ==
    IF t.type = EXPR_VAR THEN <<t.name>>
    ELSE IF t.type = EXPR_APPLY THEN
        (IF t.fn.type = EXPR_LAMBDA THEN <<"(">> \o Written(t.fn) \o <<")">>
         ELSE Written(t.fn))
        \o <<Space>>
        \o (IF t.arg.type = EXPR_VAR THEN Written(t.arg)
            ELSE <<"(">> \o Written(t.arg) \o <<")">>)
    ELSE IF t.type = EXPR_LAMBDA THEN <<"\\", t.arg, ".">> \o Written(t.body)
    ELSE <<"let", Space, t.name, Space, "=", Space>> \o Written(t.value)

---------------------------------------------------------------------------
(* The REPL (repl.cpp) and the loader (file.cpp).  todo holds the lines
   still to come on standard input, results what was printed so far. *)

Comment == "#"
Directives == {":p", ":h", ":c", ":t", ":v", ":ft", ":load", ":x", ":q"}

(* the one file that exists *)
FileName == "f"

(* runReplCommand, the directives that toggle a flag: the flag, or 0 *)
FlagOf(s) ==
    IF s = <<":p">> THEN FLAG_ABBREV_PARENS
    ELSE IF s = <<":h">> THEN FLAG_HASKELL_STYLE
    ELSE IF s = <<":c">> THEN FLAG_ABBREV_LAMBDA
    ELSE IF s = <<":t">> THEN FLAG_TRACE
    ELSE IF s = <<":v">> THEN FLAG_VAR_REPLACEMENT
    ELSE IF s = <<":ft">> THEN FLAG_FULL_TRACE
    ELSE 0

(* input.find(":load ") == 0 *)
IsLoad(s) == Len(s) >= 2 /\ s[1] = ":load" /\ s[2] = Space

(* the lines of the file in the order loadFile takes them up *)
Loading(lines) == [on |-> TRUE, file |-> loading.file, rest |-> lines,
                   i |-> Len(loading.file) - Len(lines)]

NotLoading == [on |-> FALSE, file |-> loading.file]

Said(kind, line) == [kind |-> kind, line |-> line]

(* runReplCommand(ctx, input), called from evalLine (back = "idle") or from
   loadFile (back = "load", with the lines that follow); the files of the
   model hold no :load line.  more is what the caller prints next. *)
runReplCommand(s, back, rest, more) ==
    IF FlagOf(s) # 0 THEN
        /\ flags' = Toggle(flags, FlagOf(s))
        /\ results' = Append(results, Said("toggled", s)) \o more
        /\ pc' = back
        /\ loading' = IF back = "load" THEN Loading(rest) ELSE loading
    ELSE IF IsLoad(s) /\ back = "idle" THEN
        LET path == trim(SubSeq(s, 3, Len(s))).s IN
        IF path = <<FileName>>
        THEN /\ pc' = "load"
             /\ loading' = Loading(loading.file)
             /\ UNCHANGED <<flags, results>>
        ELSE /\ results' = Append(results, Said("error", s)) \o more
             /\ pc' = back
             /\ UNCHANGED <<flags, loading>>
    ELSE
        /\ results' = Append(results, Said("error", s)) \o more
        /\ pc' = back
        /\ loading' = IF back = "load" THEN Loading(rest) ELSE loading
        /\ UNCHANGED flags

(* one turn of repl's loop: a line is read and handed to evalLine, which
   goes as far as the call of evaluate.  through: evalLine as it was before
   it returned after runReplCommand, when the directive went on to the
   parser, which rejects it. *)
ReplTurn(through) ==
    /\ pc = "idle"
    /\ todo # <<>>
    /\ todo' = Tail(todo)
    /\ LET line == Head(todo)
           t == trim(line)
           s == t.s
       IN  IF line = <<":q">> THEN
               /\ pc' = "exit"
               /\ UNCHANGED <<heap, vars, flags, expr, ret, copy, step, exists, a,
                              input, results, visited, loading, trace>>
           ELSE IF t.hangs THEN
               /\ pc' = "hung"
               /\ UNCHANGED <<heap, vars, flags, expr, ret, copy, step, exists, a,
                              input, results, visited, loading, trace>>
           ELSE IF s = <<>> \/ Head(s) = Comment THEN
               UNCHANGED <<heap, vars, flags, pc, expr, ret, copy, step, exists, a,
                           input, results, visited, loading, trace>>
           ELSE IF Head(s) \in Directives THEN
               /\ runReplCommand(s, "idle", <<>>,
                                 IF through THEN <<Said("error", s)>> ELSE <<>>)
               /\ UNCHANGED <<heap, vars, expr, ret, copy, step, exists, a, input,
                              visited, trace>>
           ELSE \E r \in {parse(s)} :
                IF ~r.ok THEN
                    /\ results' = Append(results, Said("error", s))
                    /\ UNCHANGED <<heap, vars, flags, pc, expr, ret, copy, step,
                                   exists, a, input, visited, loading, trace>>
                ELSE
                    /\ \/ EvaluateLet(r.ast)
                       \/ EvaluateExpr(r.ast)
                    /\ UNCHANGED <<results, loading>>
    /\ UNCHANGED printing

ReadLineFallingThrough == ReplTurn(TRUE)

ReadLine == ReplTurn(FALSE)

(* std::cin.eof(): the loop is left *)
EndOfInput ==
    /\ pc = "idle"
    /\ todo = <<>>
    /\ pc' = "exit"
    /\ UNCHANGED <<heap, vars, flags, expr, ret, copy, step, exists, a, input, todo,
                   results, visited, printing, loading>>
    /\ UNCHANGED trace

(* one turn of loadFile's loop, as far as the call of evaluate.  stops =
   FALSE: loadFile as it would be if it went on to the next line after a
   parse error. *)
LoadTurn(stops) ==
    /\ pc = "load"
    /\ loading.rest # <<>>
    /\ LET line == Head(loading.rest)
           rest == Tail(loading.rest)
           t == trim(line)
           s == t.s
       IN  IF t.hangs THEN
               /\ pc' = "hung"
               /\ UNCHANGED <<heap, vars, flags, expr, ret, copy, step, exists, a,
                              input, results, visited, loading, trace>>
           ELSE IF s = <<>> \/ Head(s) = Comment THEN
               /\ loading' = Loading(rest)
               /\ UNCHANGED <<heap, vars, flags, pc, expr, ret, copy, step, exists,
                              a, input, results, visited, trace>>
           ELSE IF Head(s) \in Directives THEN
               /\ runReplCommand(s, "load", rest, <<>>)
               /\ UNCHANGED <<heap, vars, expr, ret, copy, step, exists, a, input,
                              visited, trace>>
           ELSE \E r \in {parse(s)} :
                IF ~r.ok /\ stops THEN
                    \* "file not loaded completely", and back in evalLine
                    /\ results' = results \o <<Said("error", s),
                                               Said("warning", <<FileName>>)>>
                    /\ pc' = "idle"
                    /\ loading' = NotLoading
                    /\ UNCHANGED <<heap, vars, flags, expr, ret, copy, step, exists,
                                   a, input, visited, trace>>
                ELSE IF ~r.ok THEN
                    /\ results' = Append(results, Said("error", s))
                    /\ loading' = Loading(rest)
                    /\ UNCHANGED <<heap, vars, flags, pc, expr, ret, copy, step,
                                   exists, a, input, visited, trace>>
                ELSE
                    /\ \/ EvaluateLet(r.ast)
                       \/ EvaluateExpr(r.ast)
                    /\ loading' = Loading(rest)
                    /\ UNCHANGED results
    /\ UNCHANGED <<todo, printing>>

LoadLineContinuing == LoadTurn(FALSE)

LoadLine == LoadTurn(TRUE)

(* evaluate has returned to loadFile, which drops the result *)
LoadNext ==
    /\ pc = "done"
    /\ loading.on
    /\ Commit(heap, vars, NULL, NULL, NULL, NULL)
    /\ pc' = "load"
    /\ input' = NoInput
    /\ step' = 0
    /\ visited' = {}
    /\ exists' = FALSE
    /\ UNCHANGED <<flags, todo, results, printing, loading>>
    /\ trace' = <<>>

(* the loop of loadFile is over: "loaded n lines", and back in evalLine *)
LoadEnd ==
    /\ pc = "load"
    /\ loading.rest = <<>>
    /\ results' = Append(results, Said("loaded", <<FileName>>))
    /\ pc' = "idle"
    /\ loading' = NotLoading
    /\ UNCHANGED <<heap, vars, flags, expr, ret, copy, step, exists, a, input, todo,
                   visited, printing>>
    /\ UNCHANGED trace

---------------------------------------------------------------------------
(* print_replacing_vars(ctx, e) and the printer (highlight.cpp).  The text
   is kept as the tree it is written from; a definition's name shown in
   place of a sub-term is a leaf of that tree. *)

(* the keys of ctx.vars in the order the map yields them *)
Keys == SelectSeq(NameSeq, LAMBDA n : n \in DOMAIN vars)

(* the node reached from p along a path of fields *)
RECURSIVE NodeAt(_, _, _)
NodeAt(h, p, path) ==
    IF path = <<>> THEN p ELSE NodeAt(h, h[p][Head(path)], Tail(path))

(* int_highlight with the replacer: the sub-terms for which the replacer
   returned a name are written as that name *)
RECURSIVE Rendering(_, _, _)
Rendering(t, path, named) ==
    IF path \in DOMAIN named THEN MkVar(named[path])
    ELSE IF t.type = EXPR_APPLY THEN
        MkApply(Rendering(t.fn, Append(path, "fn"), named),
                Rendering(t.arg, Append(path, "arg"), named))
    ELSE IF t.type = EXPR_LAMBDA THEN
        MkLambda(t.arg, Rendering(t.body, Append(path, "body"), named))
    ELSE t

Printing(stack, keys, named) ==
    [on |-> TRUE, stack |-> stack, keys |-> keys, named |-> named]

Printed(term, replaced) ==
    [kind |-> "result", input |-> input, normal |-> term, replaced |-> replaced]

(* evaluate has returned to evalLine: without FLAG_VAR_REPLACEMENT the
   result is printed as it is; with it the printer starts at the root *)
PrintBegin ==
    /\ pc = "done"
    /\ ~loading.on
    /\ ~printing.on
    /\ IF HasFlag(flags, FLAG_VAR_REPLACEMENT)
       THEN /\ Commit(heap, vars, NULL, NULL, NULL, copy)
            /\ pc' = "print"
            /\ printing' = Printing(<< <<>> >>, Keys, EmptyMap)
            /\ UNCHANGED <<results, input>>
       ELSE /\ Commit(heap, vars, NULL, NULL, NULL, NULL)
            /\ pc' = "idle"
            /\ results' = Append(results, Printed(TermOf(heap, copy), TermOf(heap, copy)))
            /\ input' = NoInput
            /\ UNCHANGED printing
    /\ step' = 0
    /\ visited' = {}
    /\ exists' = FALSE
    /\ UNCHANGED <<flags, todo, loading>>
    /\ trace' = <<>>

(* the replacer at the node the printer is at: alpha_equivalent(ctx, expr,
   var) for the next definition, which evaluates var with flags 0 *)
ReplacerCall ==
    /\ pc = "print"
    /\ printing.stack # <<>>
    /\ printing.keys # <<>>
    /\ LET var == vars[Head(printing.keys)]
       IN  Commit(heap, vars, var, var, NULL, a)
    /\ pc' = "replace"
    /\ step' = 0
    /\ UNCHANGED <<flags, exists, input, todo, results, visited, printing, loading>>
    /\ trace' = <<>>

(* ... and compares the node with the result bb, which is deleted; the first
   definition that compares equal gives its name, and the printer does not
   go below this node *)
ReplacerReturn ==
    /\ pc = "done"
    /\ printing.on
    /\ LET path == Head(printing.stack)
           name == Head(printing.keys)
           same == alpha_equivalent(heap, NodeAt(heap, a, path), copy, 0,
                                    EmptyState, EmptyState)
       IN  printing' =
               IF same
               THEN Printing(Tail(printing.stack), Keys,
                             (path :> name) @@ printing.named)
               ELSE Printing(printing.stack, Tail(printing.keys), printing.named)
    /\ Commit(Delete(heap, copy), vars, NULL, NULL, NULL, a)
    /\ pc' = "print"
    /\ step' = 0
    /\ visited' = {}
    /\ UNCHANGED <<flags, exists, input, todo, results, loading>>
    /\ trace' = <<>>

(* no definition compared equal: the node is written itself, its children
   are printed next, fn before arg *)
PrintDescend ==
    /\ pc = "print"
    /\ printing.stack # <<>>
    /\ printing.keys = <<>>
    /\ LET path == Head(printing.stack)
           n == heap[NodeAt(heap, a, path)]
           below == IF n.type = EXPR_APPLY
                    THEN <<Append(path, "fn"), Append(path, "arg")>>
                    ELSE IF n.type = EXPR_LAMBDA THEN <<Append(path, "body")>>
                    ELSE <<>>
       IN  printing' = Printing(below \o Tail(printing.stack), Keys, printing.named)
    /\ UNCHANGED <<heap, vars, flags, pc, expr, ret, copy, step, exists, a, input,
                   todo, results, visited, loading>>
    /\ UNCHANGED trace

(* the text is complete: both renderings are printed, evalLine returns *)
PrintEnd ==
    /\ pc = "print"
    /\ printing.stack = <<>>
    /\ results' = Append(results,
                         Printed(TermOf(heap, a),
                                 Rendering(TermOf(heap, a), <<>>, printing.named)))
    /\ Commit(heap, vars, NULL, NULL, NULL, NULL)
    /\ pc' = "idle"
    /\ printing' = NoPrinting
    /\ input' = NoInput
    /\ UNCHANGED <<flags, step, exists, todo, visited, loading>>
    /\ UNCHANGED trace

---------------------------------------------------------------------------
(* The REPL at work on a session: lines typed one after the other, with one
   file on disk *)

MaxBadLen == 2
MaxShownSize == 3

(* (\x.x x)(\x.x x) *)
Omega ==
    MkApply(MkLambda("x", MkApply(MkVar("x"), MkVar("x"))),
            MkLambda("x", MkApply(MkVar("x"), MkVar("x"))))

LetLines == {Written(MkLet(n, v)) : n \in Names, v \in TermsUpTo(Names, MaxDefSize)}
ShownLines == {Written(t) : t \in TermsUpTo(Names, MaxShownSize)}

(* a definition whose right-hand side has a redex *)
RedexLines ==
    {Written(MkLet(n, MkApply(MkLambda("x", MkVar("x")), v))) :
        n \in Names, v \in TermsUpTo(Names, MaxDefSize)}

RECURSIVE SeqsOver(_, _)
SeqsOver(S, n) ==
    IF n = 0 THEN {<<>>}
    ELSE {Append(s, l) : s \in SeqsOver(S, n - 1), l \in S}

(* the lines evalLine rejects: the short ones the parser fails on, unknown
   directives and a :load of a file that does not exist *)
BadLines ==
    {s \in UNION {SeqsOver(Identifiers \cup Punctuation \cup Keywords \cup {Invalid}, n) :
                    n \in 1 .. MaxBadLen} : ~parse(s).ok}
    \cup {<<":x">>, <<":q", Space>>, <<":load">>, <<":load", Space, "g">>}

FlagLines == {<<":p">>, <<":h">>, <<":c">>, <<":t">>, <<":v">>, <<":ft">>}

(* FLAG_TRACE and FLAG_FULL_TRACE, FLAG_FULL_TRACE alone, neither *)
TraceLines == {<< <<":ft">> >>, << <<":t">>, <<":ft">> >>, << <<":t">> >>}

(* lines without effect *)
IdleLines == {<<>>, <<Comment>>}

(* what a file is made of *)
FileLines ==
    {Written(MkLet(n, MkVar(v))) : n \in Names, v \in Names}
    \cup {<<"x">>, <<":v">>, <<":x">>, <<"(">>, <<Invalid>>, <<Space>>}
    \cup IdleLines

Session(lines, file) == [lines |-> lines, file |-> file]

Sessions ==
    \* definitions, and then a term to print
    {Session(<<l, m, t>>, <<>>) :
        l \in LetLines, m \in LetLines \cup RedexLines, t \in ShownLines}
    \* a line and a rejected line, either way round
    \cup {Session(<<l, b>>, <<>>) : l \in LetLines \cup ShownLines, b \in BadLines}
    \cup {Session(<<b, l>>, <<>>) : l \in LetLines \cup ShownLines, b \in BadLines}
    \* a directive or a line without effect, and then a term to print
    \cup {Session(<<d, t>>, <<>>) :
            d \in FlagLines \cup IdleLines \cup {<<Space>>, <<":q">>}, t \in ShownLines}
    \* a file is loaded, and then a term is printed
    \cup {Session(<<<<":load", Space, FileName>>, <<"x">>>>, <<l, m, n>>) :
            l \in FileLines, m \in FileLines, n \in FileLines}
    \* the tracing flags are toggled, and then a term over a definition is
    \* evaluated
    \cup {Session(d \o <<l, t>>, <<>>) :
            d \in TraceLines, l \in LetLines, t \in ShownLines}
    \* a definition that has no normal form, and then a name is evaluated,
    \* with the back-substitution on, or off for the definition only
    \cup {Session(d \o <<Written(MkLet(n, Omega))>> \o d \o <<<<"y">>>>, <<>>) :
            d \in {<<>>, << <<":v">> >>}, n \in Names}

InitRepl ==
    /\ heap = <<>>
    /\ vars = EmptyMap
    /\ flags = SetFlag(SetFlag(0, FLAG_TRACE), FLAG_VAR_REPLACEMENT)
    /\ pc = "idle"
    /\ expr = NULL
    /\ ret = NULL
    /\ copy = NULL
    /\ step = 0
    /\ exists = FALSE
    /\ a = NULL
    /\ input = NoInput
    /\ \E s \in Sessions :
         /\ todo = s.lines
         /\ loading = [on |-> FALSE, file |-> s.file]
    /\ results = <<>>
    /\ visited = {}
    /\ printing = NoPrinting
    /\ trace = <<>>

NextRepl ==
    \/ ReadLine
    \/ EndOfInput
    \/ ReplaceVarsAgain
    \/ ReplaceVarsReturn
    \/ EvalStep
    \/ EvalBreak
    \/ PrintBegin
    \/ ReplacerCall
    \/ ReplacerReturn
    \/ PrintDescend
    \/ PrintEnd
    \/ LoadLine
    \/ LoadNext
    \/ LoadEnd

SpecRepl == InitRepl /\ [][NextRepl]_vars_all


---------------------------------------------------------------------------
(* Properties of the rewriter and of the comparison *)

(* the names that occur free in a term as written *)
RECURSIVE FreeNames(_)
FreeNames(t) ==
    IF t.type = EXPR_VAR THEN {t.name}
    ELSE IF t.type = EXPR_APPLY THEN FreeNames(t.fn) \cup FreeNames(t.arg)
    ELSE FreeNames(t.body) \ {t.arg}

(* the term the reduction loop holds *)
Current == TermOf(heap, copy)

IsExpr(t) == t.type \in {EXPR_VAR, EXPR_APPLY, EXPR_LAMBDA}

(* C1: a beta step is capture-avoiding: every turn of the reduction loop that
   rewrites the term turns it into the term in which the redex (\x.B) A it
   picked, the leftmost-outermost one, is replaced by the capture-avoiding
   B[x := A], up to the names of bound variables; no variable free in A ends
   up bound by a Lambda of B. *)
C1_BetaStepIsCaptureAvoiding ==
    [][(pc = "reduce" /\ pc' = "reduce")
        => DB(TermOf(heap', copy'), <<>>)
             = NormalOrderStep(DB(TermOf(heap, copy), <<>>))]_vars_all

(* (\x.\y.x) y has been evaluated and \y.y came out *)
C1_Captured ==
    /\ pc = "done"
    /\ input = MkApply(MkLambda("x", MkLambda("y", MkVar("x"))), MkVar("y"))
    /\ Current = MkLambda("y", MkVar("y"))

(* C2: whenever evaluate returns for a Var, Apply or Lambda input, the term
   it returns is in full normal form: it contains no redex (\x.B) A at any
   position. *)
C2_ReturnsNormalForm ==
    (pc = "done" /\ IsExpr(input)) => IsNormal(Current)

(* x (\y.(\y.y) y) has been evaluated and came out as it went in *)
C2_RedexLeft ==
    /\ pc = "done"
    /\ input = MkApply(MkVar("x"),
                 MkLambda("y", MkApply(MkLambda("y", MkVar("y")), MkVar("y"))))
    /\ Current = input

(* C3: the comparison called with depth 0 and empty scopes returns true if
   and only if the two terms differ only by a consistent renaming of bound
   variables; two free variables of the same name compare equal. *)
C3_OracleIsAlphaEquivalence ==
    pc = "compared"
        => (results[1].ab <=> AlphaEq(TermOf(heap, a), TermOf(heap, expr)))

(* the free variable x has been compared with the free variable x and the
   answer was false *)
C3_FreeVarUnequal ==
    /\ pc = "compared"
    /\ TermOf(heap, a) = MkVar("x")
    /\ TermOf(heap, expr) = MkVar("x")
    /\ ~results[1].ab

(* C4: the comparison is an equivalence relation on all terms: it is true of
   a and a for every term a, terms with free variables included, it gives the
   same answer for a, b as for b, a, and true of a, b and of b, c it is true
   of a, c. *)
C4_OracleIsEquivalence ==
    pc = "compared"
        => /\ results[1].aa
           /\ results[1].ab = results[1].ba
           /\ (results[1].ab /\ results[1].bc) => results[1].ac

(* \x.y has been compared with itself and the answer was false *)
C4_NotReflexive ==
    /\ pc = "compared"
    /\ TermOf(heap, a) = MkLambda("x", MkVar("y"))
    /\ ~results[1].aa

(* C5: alpha_conversion preserves alpha-equivalence: for every binder \x.B
   and every name y not free in B, alpha_conversion(\x.B, x, y) leaves a term
   alpha-equivalent to \x.B, also when B holds a Lambda whose parameter is
   y. *)
C5_ConversionPreservesAlphaEq ==
    (pc = "done" /\ input.fresh \notin FreeNames(input.lambda.body))
        => AlphaEq(results[1], input.lambda)

(* \x.\y.x y has been renamed from x to y and \y.\y'.x y' came out *)
C5_RenameLost ==
    /\ pc = "done"
    /\ input.lambda = MkLambda("x", MkLambda("y", MkApply(MkVar("x"), MkVar("y"))))
    /\ input.fresh = "y"
    /\ results[1] = MkLambda("y", MkLambda("y'", MkApply(MkVar("x"), MkVar("y'"))))

(* C6: the result does not depend on the names of bound variables: two
   alpha-equivalent terms evaluated in the same context give alpha-equivalent
   results. *)
C6_ResultUpToBoundNames ==
    (Len(results) = 2
        /\ IsExpr(results[1].input) /\ IsExpr(results[2].input)
        /\ AlphaEq(results[1].input, results[2].input))
        => AlphaEq(results[1].output, results[2].output)

(* (\y.\x.y) x gave \x.x and (\x.\y.x) x gave \y.x *)
C6_NamesMatter ==
    /\ Len(results) = 2
    /\ results[1].input = MkApply(MkLambda("y", MkLambda("x", MkVar("y"))), MkVar("x"))
    /\ results[1].output = MkLambda("x", MkVar("x"))
    /\ results[2].input = MkApply(MkLambda("x", MkLambda("y", MkVar("x"))), MkVar("x"))
    /\ results[2].output = MkLambda("y", MkVar("x"))

(* C7: for every term that has a normal form the reduction loop terminates.
   What the loop does next is decided by the term it holds (when no renaming
   is due, by nothing else), so a loop that terminates never holds a term a
   second time: once the loop holds a term that has a normal form, it does
   not come back to a term it held before. *)
C7_TerminatesWhenNormalFormExists ==
    (pc = "reduce" /\ HasNormalForm(Current)) => Current \notin visited

(* the loop holds (\x.x x) ((\x.\y.x) (y y)), whose normal form is y y, for
   the second time *)
C7_BackAgain ==
    /\ pc = "reduce"
    /\ Current \in visited
    /\ Current =
         LET M == MkApply(MkLambda("x", MkLambda("y", MkVar("x"))),
                          MkApply(MkVar("y"), MkVar("y")))
         IN  MkApply(M, M)


---------------------------------------------------------------------------
(* Properties of the context *)

(* the stored definitions as written: name -> term *)
Definitions == [n \in DOMAIN vars |-> TermOf(heap, vars[n])]

(* one pass of inlining over a term as written: every occurrence that is not
   under a binder of its name and whose name is defined becomes the
   definition *)
RECURSIVE InlineOnce(_, _, _)
InlineOnce(defs, t, bound) ==
    IF t.type = EXPR_VAR THEN
        IF t.name \notin bound /\ t.name \in DOMAIN defs THEN defs[t.name] ELSE t
    ELSE IF t.type = EXPR_APPLY
    THEN MkApply(InlineOnce(defs, t.fn, bound), InlineOnce(defs, t.arg, bound))
    ELSE MkLambda(t.arg, InlineOnce(defs, t.body, bound \cup {t.arg}))

(* passes repeated until no defined name is free in the whole term *)
RECURSIVE InlineAll(_, _, _)
InlineAll(defs, t, fuel) ==
    IF FreeNames(t) \cap DOMAIN defs = {} \/ fuel = 0 THEN t
    ELSE InlineAll(defs, InlineOnce(defs, t, {}), fuel - 1)

(* the reduction loop has just been handed its term *)
Handed == pc = "reduce" /\ visited = {}

(* the trees the caller of evaluate or alpha_equivalent owns: the stored
   definitions and the argument expr *)
CallerNodes ==
    Range(Visit(heap,
        [i \in 1 .. Len(NameSeq) |->
            IF NameSeq[i] \in DOMAIN vars THEN vars[NameSeq[i]] ELSE NULL] \o <<expr>>,
        <<>>))

(* C8: evaluate changes the context only for a Let: every step of a call for
   a Var, Apply or Lambda, and every step around it that is not the call for
   a Let, leaves the keys of the definitions map, the structure of every
   stored term and the flags as they were. *)
C8_ContextOnlyChangedByLet ==
    [][~(pc = "idle" /\ input'.type = EXPR_LET)
        => (Definitions' = Definitions /\ flags' = flags)]_vars_all

(* a call for an expression has inlined a definition and rewritten the
   result at least once *)
C8_Rewritten ==
    /\ pc = "reduce"
    /\ visited # {}
    /\ FreeNames(input) \cap DOMAIN vars # {}

(* C9: the rewriter works on a fresh clone: during evaluate on a non-Let
   term, and during alpha_equivalent(ctx, a, b), which evaluates b, the input
   term and every stored definition stay structurally the same, a stays the
   same, and no step writes into a node of the input or of a stored
   definition. *)
C9_WorksOnFreshClone ==
    [][(pc # "idle" /\ pc' # "idle" /\ IsExpr(input))
        => /\ Definitions' = Definitions
           /\ TermOf(heap', expr') = input
           /\ (a # NULL => TermOf(heap', a') = TermOf(heap, a))
           /\ \A p \in CallerNodes : p \in DOMAIN heap' /\ heap'[p] = heap[p]]_vars_all

(* alpha_equivalent(ctx, a, b) has returned after b was inlined *)
C9_Compared ==
    /\ pc = "compared"
    /\ FreeNames(input) \cap DOMAIN vars # {}

(* C10: the term handed to the reduction loop is the input in which every
   free occurrence of a defined name has been replaced by a copy of the
   definition, the replacement repeated on the whole term until no defined
   name is free in it; an occurrence bound by a Lambda of the input stays the
   same variable. *)
C10_HandedTermIsInlinedToFixedPoint ==
    (Handed /\ IsExpr(input)) => Current = InlineAll(Definitions, input, RefFuel)

(* (\x.x) x has been handed over with x defined as y and y as \x.x: the
   free x has become \x.x and the bound x is still x *)
C10_FreeReplacedBoundKept ==
    /\ Handed
    /\ input = MkApply(MkLambda("x", MkVar("x")), MkVar("x"))
    /\ DOMAIN vars = {"x", "y"}
    /\ Definitions["x"] = MkVar("y")
    /\ Definitions["y"] = MkLambda("x", MkVar("x"))
    /\ Current = MkApply(MkLambda("x", MkVar("x")), MkLambda("x", MkVar("x")))

(* C10 as first stated: every free occurrence of a defined name has been
   replaced by a copy of that definition, in one pass *)
C10_HandedTermIsInlinedOnce ==
    (Handed /\ IsExpr(input)) => Current = InlineOnce(Definitions, input, {})

---------------------------------------------------------------------------
(* Properties of the two loops and of single steps *)

(* the term replace_vars holds *)
Inlining == TermOf(heap, ret)

(* C11: replace_vars terminates for every context and input, a definition
   that mentions its own name, or two that mention each other, included.
   A pass is a function of the context and of the term, so the loop ends
   only if it never holds a term that it has held before in this call. *)
C11_InliningNeverRepeats ==
    pc = "replace" => Inlining \notin visited

(* with x defined as x, the input x is held by replace_vars a second time *)
C11_SelfReference ==
    /\ pc = "replace"
    /\ input = MkVar("x")
    /\ "x" \in DOMAIN vars
    /\ Definitions["x"] = MkVar("x")
    /\ Inlining \in visited

(* the next event number, as far as the model tells the numbers apart *)
After(n) == Min(step + n, MaxSteps)

(* the term is (\x.x) A *)
IsIdentityRedex(t) ==
    /\ t.type = EXPR_APPLY
    /\ t.fn.type = EXPR_LAMBDA
    /\ t.fn.body = MkVar(t.fn.arg)

(* C12: a turn of the reduction loop on (\x.x) A, whatever A is, is one
   beta-reduction event and no alpha-conversion event (the event number goes
   up by one), and leaves the loop with A as written. *)
C12_IdentityIsOneBetaStep ==
    [][(pc = "reduce" /\ IsIdentityRedex(Current))
         => (pc' = "reduce" /\ Current' = Current.arg /\ step' = After(1))]_vars_all

(* (\x.x) x has gone to x in two events: the first one renamed the binder *)
C12_RenamedFirst ==
    /\ pc = "reduce"
    /\ input = MkApply(MkLambda("x", MkVar("x")), MkVar("x"))
    /\ Current = MkVar("x")
    /\ step = 3

(* the name with i primes added: fresh_name, i times *)
RECURSIVE Primed(_, _)
Primed(name, i) == IF i = 0 THEN name ELSE fresh_name(Primed(name, i - 1))

(* the term is (\x.\x.x) A *)
IsShadowRedex(t) ==
    /\ t.type = EXPR_APPLY
    /\ t.fn.type = EXPR_LAMBDA
    /\ t.fn.body = MkLambda(t.fn.arg, MkVar(t.fn.arg))

(* C13: shadowing: a turn of the reduction loop on (\x.\x.x) A, whatever A
   is, leaves the loop with \x.x as written; the argument is not
   substituted. *)
C13_ShadowedAsWritten ==
    [][(pc = "reduce" /\ IsShadowRedex(Current))
         => (pc' = "reduce" /\ Current' = Current.fn.body)]_vars_all

(* (\x.\x.x) x has gone to \x'.x' *)
C13_ShadowedRenamed ==
    /\ pc = "reduce"
    /\ input = MkApply(MkLambda("x", MkLambda("x", MkVar("x"))), MkVar("x"))
    /\ Current = MkLambda("x'", MkVar("x'"))

(* what does hold of (\x.\x.x) A: the loop is left with \n.n, where n is x
   or, when x is free in A, x with primes added; no copy of A is in it *)
ShadowedNotSubstituted ==
    [][(pc = "reduce" /\ IsShadowRedex(Current))
         => /\ pc' = "reduce"
            /\ Current' \in {MkLambda(Primed(Current.fn.arg, i),
                                       MkVar(Primed(Current.fn.arg, i))) :
                                i \in 0 .. MaxNameLen}
            /\ (Current.fn.arg \notin FreeNames(Current.arg)
                    => Current' = Current.fn.body)]_vars_all

(* C14: a turn of the reduction loop on (\x.x x)(\x.x x) is one
   beta-reduction event and no alpha-conversion event and leaves the loop
   with the same term as written, so the loop never reaches its exit. *)
C14_OmegaYieldsItself ==
    [][(pc = "reduce" /\ Current = Omega)
         => (pc' = "reduce" /\ Current' = Omega /\ step' = After(1))]_vars_all

(* the loop holds (\x.x x)(\x.x x) after two turns on it *)
C14_StillOmega ==
    /\ pc = "reduce"
    /\ Current = Omega
    /\ visited = {Omega}
    /\ step = 3

(* C15: evaluate on Let name = value stores under name a structural copy of
   value, not reduced (a tree of its own, not the one of the Let, which is
   what the call returns), leaves every other definition and the flags as
   they were, reports a redefinition exactly when name was a key before the
   call, and changes nothing when the same Let was the last one evaluated
   for that name. *)
C15_LetStoresCopy ==
    [][(pc = "idle" /\ input'.type = EXPR_LET)
         => /\ pc' = "done"
            /\ DOMAIN Definitions' = DOMAIN Definitions \cup {input'.name}
            /\ Definitions'[input'.name] = input'.value
            /\ \A n \in DOMAIN Definitions \ {input'.name} :
                    Definitions'[n] = Definitions[n]
            /\ TermOf(heap', copy') = input'.value
            /\ vars'[input'.name] # copy'
            /\ flags' = flags
            /\ exists' = (input'.name \in DOMAIN Definitions)
            /\ ((input'.name \in DOMAIN Definitions
                    /\ Definitions[input'.name] = input'.value)
                   => Definitions' = Definitions)]_vars_all

(* let x = (\x.x) y has been evaluated for the second time: x is defined as
   (\x.x) y, not as y, and a redefinition is reported *)
C15_Redefined ==
    /\ pc = "done"
    /\ input = MkLet("x", MkApply(MkLambda("x", MkVar("x")), MkVar("y")))
    /\ exists
    /\ Definitions["x"] = input.value
    /\ Len(results) = 1
    /\ results[1].input = input



(* the outcome of the turn of the reduction loop when the set `free` yields
   its elements in the given order: the term and the number of the next event *)
Outcome(order) ==
    LET r == eval([h |-> heap, copy |-> copy], step, CopySlot, order)
    IN  [term |-> TermOf(r.m.h, r.red), step |-> Min(r.step, MaxSteps)]

(* C16: reduction is deterministic: in every turn of the reduction loop the
   term that results and the number of events are the same for every order
   in which the set of the argument's free variables can yield the ones that
   conflict with binders of the function *)
C16_RenamingOrderIrrelevant ==
    (pc = "reduce" /\ redex(heap, copy) # NULL /\ Followed(heap, copy)) =>
        \A o1, o2 \in Orders(conflicts(heap, redex(heap, copy))) :
            Outcome(o1) = Outcome(o2)

(* (\y.\x.((\x.x y) (x y))) (x (\x.x)) has come to
   \x'.((x' (x (\x.x))) (x (\x''.x''))), which is what the order x, x' makes of
   \x'.((\x'.x' (x (\x.x))) (x' (x (\x.x)))); the order x', x makes \x'.x' of
   the last binder *)
C16_OrderDecided ==
    LET x == MkVar("x")
        arg == MkApply(x, MkLambda("x", x))
        p == MkVar("x'")
        pp == MkVar("x''")
    IN  /\ pc = "reduce"
        /\ input = MkApply(MkLambda("y", MkLambda("x",
                        MkApply(MkLambda("x", MkApply(x, MkVar("y"))),
                                MkApply(x, MkVar("y"))))), arg)
        /\ Current = MkLambda("x'", MkApply(MkApply(p, arg),
                                            MkApply(x, MkLambda("x''", pp))))


---------------------------------------------------------------------------
(* Properties of the REPL *)

(* the normal form normal-order reduction reaches within fuel steps, or
   DBFree("") when it reaches none *)
RECURSIVE NormalFormWithin(_, _)
NormalFormWithin(t, fuel) ==
    IF ~HasRedex(t) THEN t
    ELSE IF fuel = 0 THEN DBFree("")
    ELSE NormalFormWithin(NormalOrderStep(t), fuel - 1)

(* the normal form of the definition n in the context defs *)
NormalFormOf(defs, n) ==
    NormalFormWithin(DB(InlineAll(defs, defs[n], RefFuel), <<>>), RefFuel)

(* the definitions a term is alpha-equivalent to the normal form of, in key
   order *)
Matching(defs, t) ==
    SelectSeq(NameSeq, LAMBDA n : n \in DOMAIN defs /\ DB(t, <<>>) = NormalFormOf(defs, n))

(* the text with every sub-term that matches a definition written as the
   first such definition's name, from the root downwards *)
RECURSIVE Shown(_, _)
Shown(defs, t) ==
    IF Matching(defs, t) # <<>> THEN MkVar(Head(Matching(defs, t)))
    ELSE IF t.type = EXPR_APPLY THEN MkApply(Shown(defs, t.fn), Shown(defs, t.arg))
    ELSE IF t.type = EXPR_LAMBDA THEN MkLambda(t.arg, Shown(defs, t.body))
    ELSE t

(* C17: with FLAG_VAR_REPLACEMENT the replaced rendering of a result shows,
   from the root downwards, every sub-term that is alpha-equivalent to the
   normal form of a definition as the name of the first such definition in
   key order *)
C17_MatchesShownByName ==
    [][(pc = "print" /\ printing.stack = <<>>)
        => results'[Len(results')].replaced = Shown(Definitions, TermOf(heap, a))]_vars_all

(* after let x = y the result y has been printed, and the replaced
   rendering is y, not x *)
C17_FreeVariableKept ==
    /\ pc = "idle"
    /\ "x" \in DOMAIN vars
    /\ Definitions["x"] = MkVar("y")
    /\ results # <<>>
    /\ LET r == results[Len(results)]
       IN  /\ r.kind = "result"
           /\ r.input = MkVar("y")
           /\ r.normal = MkVar("y")
           /\ r.replaced = MkVar("y")

(* what does hold: a closed result that a definition in normal form is
   alpha-equivalent to is shown as the first such definition's name when the
   definitions are closed *)
ClosedMatchesShownByName ==
    [][(/\ pc = "print" /\ printing.stack = <<>> /\ printing.named # EmptyMap
        /\ \A n \in DOMAIN vars : FreeNames(Definitions[n]) = {} /\ IsNormal(Definitions[n])
        /\ FreeNames(TermOf(heap, a)) = {})
        => results'[Len(results')].replaced = Shown(Definitions, TermOf(heap, a))]_vars_all

(* the lines the claim is about: the lexer or the parser rejects the line, or
   it is a directive runReplCommand does not know *)
Fails(line) ==
    LET t == trim(line) IN
    /\ line # <<":q">>
    /\ ~t.hangs
    /\ t.s # <<>>
    /\ Head(t.s) # Comment
    /\ IF Head(t.s) \in Directives
       THEN FlagOf(t.s) = 0 /\ ~IsLoad(t.s)
       ELSE ~parse(t.s).ok

(* C18: a line that fails is reported and skipped: the turn of the REPL that
   reads it prints one error, leaves the definitions, the flags and the heap
   as they were, starts no evaluation, and is back at the prompt, where the
   next line is read *)
C18_FailedLineSkipped ==
    [][(pc = "idle" /\ todo # <<>> /\ Fails(Head(todo)))
        => /\ results' = Append(results, Said("error", trim(Head(todo)).s))
           /\ Definitions' = Definitions
           /\ flags' = flags
           /\ heap' = heap
           /\ pc' = "idle"
           /\ todo' = Tail(todo)]_vars_all

(* let x = y was stored, ( was rejected, and the REPL is at the prompt with
   x still defined as y *)
C18_RejectedAfterLet ==
    /\ pc = "idle"
    /\ todo = <<>>
    /\ Len(results) = 2
    /\ results[1].kind = "result"
    /\ results[2] = Said("error", <<"(">>)
    /\ "x" \in DOMAIN vars
    /\ Definitions["x"] = MkVar("y")

(* a line of a file that the parser is given and rejects *)
FailsToParse(line) ==
    LET t == trim(line) IN
    /\ ~t.hangs
    /\ t.s # <<>>
    /\ Head(t.s) # Comment
    /\ Head(t.s) \notin Directives
    /\ ~parse(t.s).ok

(* the lines of a file before the first one that fails to parse *)
RECURSIVE BeforeFailure(_)
BeforeFailure(file) ==
    IF file = <<>> \/ FailsToParse(Head(file)) THEN <<>>
    ELSE <<Head(file)>> \o BeforeFailure(Tail(file))

(* what the lines make of a context ctx = [vars, flags]: a definition is
   stored as written, a flag directive toggles its flag, and nothing else
   changes anything *)
RECURSIVE Effect(_, _)
Effect(lines, ctx) ==
    IF lines = <<>> THEN ctx
    ELSE LET s == trim(Head(lines)).s
             r == parse(s)
         IN  Effect(Tail(lines),
                IF s = <<>> \/ Head(s) = Comment THEN ctx
                ELSE IF Head(s) \in Directives THEN
                    IF FlagOf(s) = 0 THEN ctx
                    ELSE [ctx EXCEPT !.flags = Toggle(ctx.flags, FlagOf(s))]
                ELSE IF r.ok /\ r.ast.type = EXPR_LET THEN
                    [ctx EXCEPT !.vars = (r.ast.name :> r.ast.value) @@ ctx.vars]
                ELSE ctx)

(* loadFile has returned, having loaded all of the file or not *)
LoadOver ==
    /\ ~loading.on
    /\ \E i \in DOMAIN results : results[i].kind \in {"loaded", "warning"}

(* C19: the first line of a file that fails to parse stops the load: when
   loadFile has returned, the definitions and the flags are what the lines
   before that line make of the context the load started in, blank lines and
   comments among them making nothing of it, and no later line has had an
   effect *)
C19_LoadStopsAtFirstFailure ==
    LoadOver =>
        LET ctx == Effect(BeforeFailure(loading.file),
                          [vars |-> EmptyMap,
                           flags |-> SetFlag(SetFlag(0, FLAG_TRACE), FLAG_VAR_REPLACEMENT)])
        IN  /\ Definitions = ctx.vars
            /\ flags = ctx.flags

(* of the file let x = y, (, let y = x the first line is in effect and the
   third is not *)
C19_StoppedInTheMiddle ==
    /\ LoadOver
    /\ loading.file = <<Written(MkLet("x", MkVar("y"))), <<"(">>,
                        Written(MkLet("y", MkVar("x")))>>
    /\ Definitions = ("x" :> MkVar("y"))
    /\ results[Len(results)].kind = "result"

---------------------------------------------------------------------------
(* Properties of the reduction order *)

IsRedexAsWritten(t) == t.type = EXPR_APPLY /\ t.fn.type = EXPR_LAMBDA

RECURSIVE HasRedexAsWritten(_)
HasRedexAsWritten(t) ==
    IF t.type = EXPR_APPLY
    THEN IsRedexAsWritten(t) \/ HasRedexAsWritten(t.fn) \/ HasRedexAsWritten(t.arg)
    ELSE IF t.type = EXPR_LAMBDA THEN HasRedexAsWritten(t.body)
    ELSE FALSE

(* the path to the leftmost-outermost redex of a term that has a redex: the
   redex no other redex contains and no redex starts to the left of *)
RECURSIVE LeftmostOutermost(_)
LeftmostOutermost(t) ==
    IF IsRedexAsWritten(t) THEN <<>>
    ELSE IF t.type = EXPR_LAMBDA THEN <<"body">> \o LeftmostOutermost(t.body)
    ELSE IF HasRedexAsWritten(t.fn) THEN <<"fn">> \o LeftmostOutermost(t.fn)
    ELSE <<"arg">> \o LeftmostOutermost(t.arg)

(* the Expr** of the node at the end of a path from copy *)
SlotAt(path) ==
    IF path = <<>> THEN CopySlot
    ELSE Slot(NodeAt(heap, copy, SubSeq(path, 1, Len(path) - 1)), path[Len(path)])

(* the whole term after the redex at the end of path is contracted the way
   beta_reduction contracts a redex *)
Contracted(path, order) ==
    LET r == beta_reduction([h |-> heap, copy |-> copy], step,
                            NodeAt(heap, copy, path), SlotAt(path), order)
    IN  [term |-> TermOf(r.m.h, r.m.copy), step |-> Min(r.step, MaxSteps)]

(* C20: every beta step of the driver contracts the leftmost-outermost redex
   of the whole term: the turn of the reduction loop that rewrites the term
   leaves what the contraction of that redex leaves *)
C20_StepsAreLeftmostOutermost ==
    [][(pc = "reduce" /\ pc' = "reduce" /\ copy # NULL)
        => LET path == LeftmostOutermost(Current)
           IN  /\ HasRedexAsWritten(Current)
               /\ \E order \in Orders(conflicts(heap, NodeAt(heap, copy, path))) :
                     /\ Current' = Contracted(path, order).term
                     /\ step' = Contracted(path, order).step]_vars_all

(* (\x.y) ((\x.x) y) has become y: the outer redex was contracted, not the
   one in its argument *)
C20_OuterBeforeInner ==
    LET inner == MkApply(MkLambda("x", MkVar("x")), MkVar("y"))
        outer == MkApply(MkLambda("x", MkVar("y")), inner)
    IN  /\ pc = "reduce"
        /\ input = outer
        /\ visited = {outer}
        /\ Current = MkVar("y")

---------------------------------------------------------------------------
(* Properties of the renaming before a substitution *)

(* the heap at the moment beta_reduction at the redex app has left its loop
   over `free` and is about to substitute *)
Renamed(app, order) ==
    LET func == heap[app].fn
        free == find_free_variables(heap, heap[app].arg)
        bound == find_bound_variables(heap, func)
    IN  rename_conflicts(heap, step, bound, SelectSeq(order, LAMBDA v : v \in free)).h

(* a substitution site for var in t lies under a Lambda of t whose parameter
   is one of names *)
RECURSIVE SiteUnder(_, _, _, _)
SiteUnder(t, var, names, under) ==
    IF t.type = EXPR_VAR THEN t.name = var /\ under
    ELSE IF t.type = EXPR_APPLY
    THEN SiteUnder(t.fn, var, names, under) \/ SiteUnder(t.arg, var, names, under)
    ELSE IF t.arg = var THEN FALSE
    ELSE SiteUnder(t.body, var, names, under \/ t.arg \in names)

(* nothing is left to rename at the redex app of the heap h *)
NoConflictLeft(h, app) ==
    LET fn == TermOf(h, h[app].fn)
        free == FreeNames(TermOf(h, h[app].arg))
    IN  /\ ~SiteUnder(fn.body, fn.arg, free, FALSE)
        /\ DOMAIN find_bound_variables(h, h[app].fn) \cap free = {}

(* C21: at the moment a beta step substitutes the argument, the renaming
   has removed every conflict: no name free in the argument is the parameter
   of a Lambda of the function under which a substitution site lies, and
   find_bound_variables of the function has no key that is free in the
   argument. *)
C21_NoConflictWhenSubstituting ==
    (pc = "reduce" /\ redex(heap, copy) # NULL /\ Followed(heap, copy))
        => \A order \in Orders(conflicts(heap, redex(heap, copy))) :
              NoConflictLeft(Renamed(redex(heap, copy), order), redex(heap, copy))

(* the loop holds (\x.\y.x) y: nothing is renamed, and y goes under \y *)
C21_BinderNotSeen ==
    /\ pc = "reduce"
    /\ Current = MkApply(MkLambda("x", MkLambda("y", MkVar("x"))), MkVar("y"))
    /\ conflicts(heap, copy) = {}

---------------------------------------------------------------------------
(* Properties of the variable analysis *)

(* the names that are the parameter of a Lambda of a term as written *)
RECURSIVE Parameters(_)
Parameters(t) ==
    IF t.type = EXPR_VAR THEN {}
    ELSE IF t.type = EXPR_APPLY THEN Parameters(t.fn) \cup Parameters(t.arg)
    ELSE {t.arg} \cup Parameters(t.body)

(* the function of the redex the loop is about to contract *)
Func == heap[redex(heap, copy)].fn

(* C22: find_bound_variables(e) has as keys exactly the names that are the
   parameter of a Lambda of e, used in its body or not, and each key maps to
   an innermost Lambda of e binding that name: one with that parameter and
   no Lambda with that parameter in its body. *)
C22_BoundVariablesAreTheParameters ==
    (pc = "reduce" /\ redex(heap, copy) # NULL)
        => LET bound == find_bound_variables(heap, Func)
           IN  /\ DOMAIN bound = Parameters(TermOf(heap, Func))
               /\ \A n \in DOMAIN bound :
                     /\ heap[bound[n]].type = EXPR_LAMBDA
                     /\ heap[bound[n]].arg = n
                     /\ n \notin Parameters(TermOf(heap, heap[bound[n]].body))

(* the function is \x.\y.x and the only key is x *)
C22_UnusedParameterMissing ==
    /\ pc = "reduce"
    /\ redex(heap, copy) # NULL
    /\ TermOf(heap, Func) = MkLambda("x", MkLambda("y", MkVar("x")))
    /\ DOMAIN find_bound_variables(heap, Func) = {"x"}

(* the function is \x.\x.x and the key x maps to the outer Lambda *)
C22_OuterLambdaKept ==
    /\ pc = "reduce"
    /\ redex(heap, copy) # NULL
    /\ TermOf(heap, Func) = MkLambda("x", MkLambda("x", MkVar("x")))
    /\ find_bound_variables(heap, Func)["x"] = Func

(* the Var nodes below e that lie under at most k Lambdas of the term at e *)
RECURSIVE VarsWithin(_, _, _)
VarsWithin(h, e, k) ==
    LET n == h[e] IN
    IF n.type = EXPR_VAR THEN {e}
    ELSE IF n.type = EXPR_APPLY THEN VarsWithin(h, n.fn, k) \cup VarsWithin(h, n.arg, k)
    ELSE IF n.type = EXPR_LAMBDA
    THEN IF k = 0 THEN {} ELSE VarsWithin(h, n.body, k - 1)
    ELSE {}

(* the Var nodes below e whose name is not the parameter of an enclosing
   Lambda of the term at e, nor one of names *)
RECURSIVE FreeOccurrences(_, _, _)
FreeOccurrences(h, e, names) ==
    LET n == h[e] IN
    IF n.type = EXPR_VAR THEN IF n.name \in names THEN {} ELSE {e}
    ELSE IF n.type = EXPR_APPLY
    THEN FreeOccurrences(h, n.fn, names) \cup FreeOccurrences(h, n.arg, names)
    ELSE IF n.type = EXPR_LAMBDA THEN FreeOccurrences(h, n.body, names \cup {n.arg})
    ELSE {}

(* _find_variables<false, 1>({ }, e), the query the comparison makes at its
   root *)
OneLevelFree(e) == find_variables(FALSE, 1, heap, EmptyMap, e, 0)

(* C23: the free-variable query honours its depth limit: with limit 1, as
   the comparison calls it, no occurrence it returns lies under more than one
   Lambda of the queried term, Apply nodes between the Lambdas or not;
   without limit it returns exactly the occurrences whose name no enclosing
   Lambda binds. *)
C23_DepthLimitHonoured ==
    pc = "compared"
        => \A e \in {a, expr, copy} :
              /\ OneLevelFree(e) \subseteq VarsWithin(heap, e, 1)
              /\ find_free_variables(heap, e) = FreeOccurrences(heap, e, {})

(* the query with limit 1 on \x.\x.y returns y, which lies under two
   Lambdas *)
C23_BelowTheLimit ==
    /\ pc = "compared"
    /\ TermOf(heap, a) = MkLambda("x", MkLambda("x", MkVar("y")))
    /\ OneLevelFree(a) # {}
    /\ OneLevelFree(a) = find_free_variables(heap, a)

---------------------------------------------------------------------------
(* Properties of the trace *)

(* the lines of the trace without the snapshots, and the numbered ones *)
Lines == SelectSeq(trace, LAMBDA e : e.kind \notin {"before", "after"})
Numbered == SelectSeq(trace, LAMBDA e : e.kind \in {"alpha-con", "beta-red"})

Tracing == HasFlag(print_flags, FLAG_TRACE)
FullTracing == Tracing /\ HasFlag(print_flags, FLAG_FULL_TRACE)

(* C24: the trace follows the reduction order.  Under FLAG_TRACE the first
   line of an evaluation is the line 0 with the term handed to the loop; the
   alpha and beta lines are numbered 1, 2, ... in the order written, and the
   counter of the loop is the next number; an alpha line is followed by an
   alpha line or by the beta line of its step; "done" is the last line and is
   written when the loop is left.  The snapshots are written only when
   FLAG_TRACE and FLAG_FULL_TRACE are both set, and then around every
   numbered line's transformation. *)
C24_TraceFollowsReduction ==
    /\ \A i \in DOMAIN Numbered : Numbered[i].step = i
    /\ (Tracing /\ pc \in {"reduce", "done"} /\ IsExpr(input))
          => /\ Lines # <<>>
             /\ Lines[1].kind = "0"
             /\ Handed => Lines[1].text = Current
             /\ \A i \in DOMAIN Lines : i > 1 => Lines[i].kind # "0"
             /\ (pc = "reduce" /\ step < MaxSteps) => step = Len(Numbered) + 1
             /\ pc = "done" => Lines[Len(Lines)].kind = "done"
    /\ \A i \in DOMAIN Lines :
          /\ Lines[i].kind = "alpha-con"
                => i < Len(Lines) /\ Lines[i + 1].kind \in {"alpha-con", "beta-red"}
          /\ Lines[i].kind = "done" => i = Len(Lines) /\ pc = "done"
    /\ \A i \in DOMAIN trace :
          /\ trace[i].kind \in {"before", "after"} => FullTracing
          /\ (FullTracing /\ trace[i].kind \in {"alpha-con", "beta-red"})
                => /\ i + 2 <= Len(trace)
                   /\ trace[i + 1].kind = "before"
                   /\ trace[i + 2].kind = "after"
    /\ ~Tracing => trace = <<>>

(* with x defined as \y.y and both flags set, x y has been evaluated: line
   0, the renaming numbered 1 and the substitution numbered 2, each with its
   snapshots, and "done" *)
C24_FullTraceOfRenamingStep ==
    /\ pc = "done"
    /\ input = MkApply(MkVar("x"), MkVar("y"))
    /\ FullTracing
    /\ [i \in DOMAIN trace |-> <<trace[i].kind, trace[i].step>>]
         = << <<"0", 0>>, <<"alpha-con", 1>>, <<"before", 1>>, <<"after", 1>>,
              <<"beta-red", 2>>, <<"before", 2>>, <<"after", 2>>, <<"done", 0>> >>

---------------------------------------------------------------------------
(* Properties of the comparison's free-variable check *)

(* the names of the free variables the comparison finds at the root *)
OneLevelFreeNames(e) == {heap[v].name : v \in OneLevelFree(e)}

(* C25: the comparison of the free-variable names does not change the
   answer: for every pair of terms the comparison gives what it gives
   without that check. *)
C25_FreeNameCheckRedundant ==
    pc = "compared"
        => \A p, q \in {a, expr, copy} :
              OracleCall(heap, p, q)
                = alpha_equivalent_unchecked(heap, p, q, 0, EmptyState, EmptyState)

(* \x.y and \x.x have been compared: the check stops the comparison at the
   root, and without it the answer is false as well *)
C25_StoppedByTheCheck ==
    /\ pc = "compared"
    /\ TermOf(heap, a) = MkLambda("x", MkVar("y"))
    /\ TermOf(heap, expr) = MkLambda("x", MkVar("x"))
    /\ OneLevelFreeNames(a) # OneLevelFreeNames(expr)
    /\ ~results[1].ab
    /\ ~alpha_equivalent_unchecked(heap, a, expr, 0, EmptyState, EmptyState)

---------------------------------------------------------------------------
(* Properties of the inlining *)

(* the term t with the definitions inlined without capture, in de Bruijn
   form: a free variable of a definition stays free wherever the definition
   is put.  env holds the parameters of the Lambdas of t around the place. *)
RECURSIVE InlinedFree(_, _, _, _)
InlinedFree(defs, t, env, fuel) ==
    IF t.type = EXPR_VAR THEN
        IF \E i \in DOMAIN env : env[i] = t.name THEN DB(t, env)
        ELSE IF t.name \in DOMAIN defs /\ fuel > 0
        THEN InlinedFree(defs, defs[t.name], <<>>, fuel - 1)
        ELSE DBFree(t.name)
    ELSE IF t.type = EXPR_APPLY
    THEN DBApply(InlinedFree(defs, t.fn, env, fuel), InlinedFree(defs, t.arg, env, fuel))
    ELSE DBLambda(InlinedFree(defs, t.body, <<t.arg>> \o env, fuel))

(* C26: inlining does not capture: the term handed to the reduction loop is,
   up to the names of bound variables, the input with every free occurrence
   of a defined name replaced by its definition, the free variables of the
   definition still free; a free y of a definition put under a Lambda of the
   input whose parameter is y is not bound by that Lambda. *)
C26_InliningDoesNotCapture ==
    (Handed /\ IsExpr(input))
        => DB(Current, <<>>) = InlinedFree(Definitions, input, <<>>, RefFuel)

(* with x defined as y, \y.x has been handed to the loop as \y.y *)
C26_CapturedByInput ==
    /\ Handed
    /\ input = MkLambda("y", MkVar("x"))
    /\ "x" \in DOMAIN Definitions
    /\ Definitions["x"] = MkVar("y")
    /\ "y" \notin DOMAIN Definitions
    /\ Current = MkLambda("y", MkVar("y"))

---------------------------------------------------------------------------
(* Properties of the comparison on closed terms *)

(* the term at e has no free variable *)
ClosedAt(e) == FreeNames(TermOf(heap, e)) = {}

(* C27: on closed terms the comparison is exact: it answers true exactly
   when the two terms are the same up to the names of bound variables,
   shadowing included; and it never answers true when one of the terms has
   a free variable. *)
C27_ExactOnClosedTerms ==
    pc = "compared"
        => \A p, q \in {a, expr, copy} :
              IF ClosedAt(p) /\ ClosedAt(q)
              THEN OracleCall(heap, p, q) = AlphaEq(TermOf(heap, p), TermOf(heap, q))
              ELSE ~OracleCall(heap, p, q)

(* \x.\x.x has been compared with \y.\x.x (true), with \x.\y.x (false) and
   \x.\y.x with itself (true) *)
C27_ShadowingCompared ==
    /\ pc = "compared"
    /\ TermOf(heap, a) = MkLambda("x", MkLambda("x", MkVar("x")))
    /\ TermOf(heap, expr) = MkLambda("y", MkLambda("x", MkVar("x")))
    /\ TermOf(heap, copy) = MkLambda("x", MkLambda("y", MkVar("x")))
    /\ results[1].ab
    /\ ~results[1].ac
    /\ ~results[1].bc
    /\ OracleCall(heap, copy, copy)

---------------------------------------------------------------------------
(* Properties of the binding of defined names *)

(* what a term comes to when a name is followed through the definitions
   given, as long as the term is a defined name *)
RECURSIVE Resolve(_, _, _)
Resolve(defs, t, fuel) ==
    IF t.type = EXPR_VAR /\ t.name \in DOMAIN defs /\ fuel > 0
    THEN Resolve(defs, defs[t.name], fuel - 1)
    ELSE t

(* following the name ends in a term that is in normal form and has no
   defined name free in it *)
Settles(defs, t) ==
    LET r == Resolve(defs, t, RefFuel)
    IN  FreeNames(r) \cap DOMAIN defs = {} /\ ~HasRedex(DB(r, <<>>))

(* C28: definitions are late-bound: a Let stores its right-hand side as
   written, also when names free in it are defined at that moment, and the
   evaluation of a name gives what the name comes to under the definitions
   stored when it is evaluated, not under those stored when it was
   defined. *)
C28_DefinitionsAreLateBound ==
    pc = "done"
        => /\ input.type = EXPR_LET => Definitions[input.name] = input.value
           /\ (input.type = EXPR_VAR /\ Settles(Definitions, input))
                 => Current = Resolve(Definitions, input, RefFuel)

(* let x = y, let y = k, x, let y = w, x have been evaluated: the first x
   gave k and the second one w *)
C28_ResolvedAnew ==
    /\ pc = "idle"
    /\ Len(results) = 5
    /\ results[1].input = MkLet("x", MkVar("y"))
    /\ results[2].input = MkLet("y", MkVar("k"))
    /\ results[3] = [input |-> MkVar("x"), output |-> MkVar("k")]
    /\ results[4].input = MkLet("y", MkVar("w"))
    /\ results[5] = [input |-> MkVar("x"), output |-> MkVar("w")]
    /\ Definitions = ("x" :> MkVar("y")) @@ ("y" :> MkVar("w"))

---------------------------------------------------------------------------
(* Properties of the fresh name *)

(* the names free in the argument of the redex the loop is about to
   contract *)
ArgFree == FreeNames(TermOf(heap, heap[redex(heap, copy)].arg))

(* C29: the fresh name of a beta step is fresh: when a Lambda of the
   function with parameter y is renamed to y', the name y' is free neither in
   the body of that Lambda nor in the argument. *)
C29_FreshNameIsFresh ==
    (pc = "reduce" /\ redex(heap, copy) # NULL /\ Followed(heap, copy))
        => LET bound == find_bound_variables(heap, Func)
           IN  \A v \in conflicts(heap, redex(heap, copy)) :
                  LET f == heap[v].name IN
                  /\ fresh_name(f) \notin ArgFree
                  /\ fresh_name(f)
                        \notin FreeNames(TermOf(heap, heap[bound[f]].body))

(* the loop holds \y'.(\x.\y.y x) (y' y): \y of the function is about to be
   renamed to y', and y' is free in the argument *)
C29_FreshNameTaken ==
    /\ pc = "reduce"
    /\ Current = MkLambda("y'",
                    MkApply(MkLambda("x", MkLambda("y", MkApply(MkVar("y"), MkVar("x")))),
                            MkApply(MkVar("y'"), MkVar("y"))))
    /\ \E v \in conflicts(heap, redex(heap, copy)) : heap[v].name = "y"
    /\ "y'" \in ArgFree

(* the step has been taken: the y' of the argument is bound by the renamed
   Lambda *)
C29_CapturedByRenamed ==
    /\ pc = "reduce"
    /\ visited # {}
    /\ Current = MkLambda("y'", MkLambda("y'",
                    MkApply(MkVar("y'"), MkApply(MkVar("y'"), MkVar("y")))))

---------------------------------------------------------------------------
(* Properties of a let line at the REPL *)

(* evalLine is at work on a let line typed at the prompt *)
AtLetLine == ~loading.on /\ pc # "idle" /\ input # NoInput /\ input.type = EXPR_LET

(* C30: a let line at the REPL terminates under the default flags, whatever
   the right-hand side, and stores the right-hand side as written; and the
   work done for a definition while a later line is printed terminates as
   well.  The two loops are functions of the term they hold, so they end
   only if they never hold a term they have held before in the same call. *)
C30_LetLineTerminates ==
    /\ AtLetLine => Definitions[input.name] = input.value
    /\ (AtLetLine \/ (~loading.on /\ printing.on))
          => /\ pc = "replace" => Inlining \notin visited
             /\ pc = "reduce" => Current \notin visited

(* let x = (\x.x x)(\x.x x) has been typed under the default flags: the
   definition is stored, nothing has been printed, and the evaluation made
   to print the line holds the term a second time *)
C30_LetLineDiverges ==
    /\ AtLetLine
    /\ input = MkLet("x", Omega)
    /\ flags = SetFlag(SetFlag(0, FLAG_TRACE), FLAG_VAR_REPLACEMENT)
    /\ Definitions = ("x" :> Omega)
    /\ results = <<>>
    /\ pc = "reduce"
    /\ printing.on
    /\ Current = Omega
    /\ Omega \in visited

(* the definition was typed with the back-substitution off and the line
   returned; the later line y, typed with it on, has been evaluated to y and
   the evaluation made to print it holds the definition a second time *)
C30_LaterLineDiverges ==
    /\ ~loading.on
    /\ input = MkVar("y")
    /\ HasFlag(flags, FLAG_VAR_REPLACEMENT)
    /\ Definitions = ("x" :> Omega)
    /\ pc = "reduce"
    /\ printing.on
    /\ TermOf(heap, a) = MkVar("y")
    /\ Current = Omega
    /\ Omega \in visited

=============================================================================
